---- MODULE Spec2Model ----
(***************************************************************************)
(* Document history graph of graph-data-experiment: the document_hist and  *)
(* document_event relations, their indexes, foreign keys and constraint    *)
(* triggers (alembic revision b29522cb896e, models.py) and the request     *)
(* handlers of server/gd.py that read and write them.                      *)
(***************************************************************************)
EXTENDS Integers, FiniteSets, Sequences, TLC

\* ------------------------------------------------------------------------
\* Bounds
\* ------------------------------------------------------------------------
\* number of requests the server answers in a run
MaxRequests == 4
\* number of nodes stored before the concurrent createEdge requests arrive
MaxNodes == 2
\* the durations the authenticator is constructed with, and the last second
\* of the clock
token_duration == 2
session_duration == 3
MaxTime == 5
\* lines in a snapshot batch, and the last second a client stamps a line with
MaxLines == 2
MaxStamp == 2

\* ------------------------------------------------------------------------
\* Values
\* ------------------------------------------------------------------------
\* SQL NULL in a uuid column (parent) and Python None in a route argument
NULL == 0
\* the three values of the nullable boolean column document_hist.published
PubValues == {"true", "false", "null"}
\* directory users that can authenticate, and a uid no user_info row has
Users == {"u1"}
Uids == Users \cup {"ghost"}
\* the reason tag a direct POST /edge request sends in its body
ManualReason == "manual"

VARIABLES
    document_hist,   \* hid -> row of table document_hist (rows that exist)
    document_event,  \* set of rows of table document_event
    user_info,       \* uid -> row of table user_info (rows that exist)
    next_hid,        \* the next value gen_random_uuid() returns
    last,            \* the last request and its response
    requests,        \* number of requests answered so far
    txn,             \* request -> its open post_edge_event transaction
    graph,           \* the get_graph request in flight and what it fetched
    now,             \* time(), in seconds
    held,            \* the token string the client holds
    origin,          \* time of the authentication the held token descends from
    jwe_last,        \* the last token operation and its outcome
    t_snapshot       \* set of rows of table snapshot

token_vars == <<now, held, origin, jwe_last>>
vars == <<document_hist, document_event, user_info, next_hid, last, requests, txn,
          graph, now, held, origin, jwe_last, t_snapshot>>

\* a database state: the two graph relations and the users
Db(H, E, U) == [H |-> H, E |-> E, U |-> U]
CurrentDb == Db(document_hist, document_event, user_info)

\* result of a statement or transaction: error name ("" = none) and the
\* database state it leaves
Res(err, db) == [err |-> err, db |-> db]

\* ------------------------------------------------------------------------
\* Storage: triggers, indexes, foreign keys
\* ------------------------------------------------------------------------
\* SQL three-valued NOT on the published column
SqlNot(v) == IF v = "true" THEN "false" ELSE IF v = "false" THEN "true" ELSE "null"

\* SELECT published FROM document_hist WHERE hid = p  (no row: NULL)
PublishedOf(H, p) == IF p \in DOMAIN H THEN H[p].published ELSE "null"

\* variant: the trigger reads the published flag of the row's hist
check_hist_published(H, new) == SqlNot(PublishedOf(H, new.hist)) = "true"

\* check_parent_published(): IF NOT (SELECT published ...) THEN RAISE
check_parent_published(H, new) == SqlNot(PublishedOf(H, new.parent)) = "true"

\* variant: the trigger raises for the rows that are not published
check_published(old) == old.published # "true"

\* check_unpublished(): IF OLD.published THEN RAISE
check_unpublished(old) == old.published = "true"

\* the recursive CTE all_events(parent) of check_document_cycle():
\* iterate "SELECT e.parent FROM all_events ae, document_event e
\* WHERE e.hist = ae.parent" under UNION until nothing is added
RECURSIVE all_events(_, _)
all_events(E, S) ==
    LET step == S \cup {e.parent : e \in {x \in E : x.hist # NULL /\ x.hist \in S}}
    IN  IF step = S THEN S ELSE all_events(E, step)

\* variant: the trigger compares the row's hist with its own parent only
check_document_self_cycle(E, new) == new.parent # NULL /\ new.hist = new.parent

\* check_document_cycle(): IF NEW.hist IN (all_events) THEN RAISE
\* (a NULL in the list never makes IN true)
check_document_cycle(E, new) ==
    new.hist \in (all_events(E, {new.parent}) \ {NULL})

\* variant: parent_hist_index alone, in which NULL parents are all distinct
KeyStoredNonNull(E, p, h) == p # NULL /\ \E e \in E : e.parent = p /\ e.hist = h

\* parent_hist_index and null_hist_index: a row with this key is stored
KeyStored(E, p, h) == \E e \in E : e.parent = p /\ e.hist = h

\* error names as the exception handlers of gd.py answer them
NoError == ""
UniqueViolation == "unique_violation_error"
ForeignKeyViolation == "foreign_key_violation_error"
UnpublishedParent == "unpublished_parent"
ParentCycle == "parent_cycle"
AlreadyPublished == "already_published"
NotNullViolation == "not_null_violation_error"
NotFound == "not_found"
ServerError == "server_error"
Unauthorized == "unauthorized"

\* a key the JSON body of a request does not carry
Absent == "absent"

\* a row of document_event and a row of document_hist; no handler names
\* the column document_hist.tstamp in its insert, and the column has no
\* server default, so that a row is stored with tstamp NULL
EventRow(p, h, u, r) == [parent |-> p, hist |-> h, uid |-> u, reason |-> r]
HistRow(pub) == [published |-> pub, tstamp |-> NULL]

\* INSERT INTO document_event VALUES (new), up to the end of the statement:
\* a row without a value for the NOT NULL column uid is rejected first; the
\* unique indexes reject at insertion; the AFTER ROW triggers then fire in
\* name order, the foreign keys (RI_ConstraintTrigger_c_*: parent_fk, hist_fk,
\* uid_fk) before trigger_check_parent_published
insert_event(db, new) ==
    IF new.uid = Absent THEN Res(NotNullViolation, db)
    ELSE IF KeyStored(db.E, new.parent, new.hist) THEN Res(UniqueViolation, db)
    ELSE IF new.parent # NULL /\ new.parent \notin DOMAIN db.H
        THEN Res(ForeignKeyViolation, db)
    ELSE IF new.hist \notin DOMAIN db.H THEN Res(ForeignKeyViolation, db)
    ELSE IF new.uid \notin DOMAIN db.U THEN Res(ForeignKeyViolation, db)
    ELSE IF check_parent_published(db.H, new) THEN Res(UnpublishedParent, db)
    ELSE Res(NoError, Db(db.H, db.E \cup {new}, db.U))

\* COMMIT of a transaction that inserted `new`: the deferred constraint
\* trigger trigger_check_document_cycle fires for the inserted row
commit_insert_event(db, new) ==
    IF check_document_cycle(db.E, new) THEN ParentCycle ELSE NoError

\* INSERT INTO document_hist VALUES (hid, row): primary key on hid
insert_hist(db, hid, row) ==
    IF hid \in DOMAIN db.H THEN Res(UniqueViolation, db)
    ELSE Res(NoError, Db(db.H @@ (hid :> row), db.E, db.U))

\* variant: hist_fk without ON DELETE CASCADE removes the node only
delete_hist_no_cascade(db, hid) ==
    IF \E e \in db.E : e.parent = hid THEN Res(ForeignKeyViolation, db)
    ELSE IF check_unpublished(db.H[hid]) THEN Res(AlreadyPublished, db)
    ELSE Res(NoError, Db([h \in DOMAIN db.H \ {hid} |-> db.H[h]], db.E, db.U))

\* DELETE FROM document_hist WHERE hid = hid, for a row that exists: the
\* AFTER ROW triggers fire in name order, parent_fk (NO ACTION) and hist_fk
\* (ON DELETE CASCADE) before trigger_check_unpublished
delete_hist(db, hid) ==
    IF \E e \in db.E : e.parent = hid THEN Res(ForeignKeyViolation, db)
    ELSE IF check_unpublished(db.H[hid]) THEN Res(AlreadyPublished, db)
    ELSE Res(NoError, Db([h \in DOMAIN db.H \ {hid} |-> db.H[h]],
                         {e \in db.E : e.hist # hid}, db.U))

\* variant: the trigger is created AFTER DELETE only
update_hist_untriggered(db, hid, pub) ==
    Res(NoError, Db([db.H EXCEPT ![hid].published = pub], db.E, db.U))

\* UPDATE document_hist SET published = pub WHERE hid = hid, for a row that
\* exists: trigger_check_unpublished fires on the old row
update_hist(db, hid, pub) ==
    IF check_unpublished(db.H[hid]) THEN Res(AlreadyPublished, db)
    ELSE Res(NoError, Db([db.H EXCEPT ![hid].published = pub], db.E, db.U))

\* ------------------------------------------------------------------------
\* Handlers of server/gd.py, as functions of the database state they run on
\* (each returns the error it answers and the committed state it leaves)
\* ------------------------------------------------------------------------
\* variant: every statement commits on its own
no_transaction(db, r) == r

\* a transaction (pg.transaction(), or the implicit one of a single
\* statement) that started on db and whose statements ended as r: it commits
\* what they left, or rolls back to db when one of them raised
transaction(db, r) == IF r.err # NoError THEN Res(r.err, db) ELSE r

\* an INSERT INTO document_event followed by COMMIT: the state is the one the
\* statement left, the error the statement's or the deferred trigger's
insert_event_commit(db, new) ==
    LET edge == insert_event(db, new)
    IN  IF edge.err # NoError THEN edge
        ELSE Res(commit_insert_event(edge.db, new), edge.db)

\* payload.get("published", False)
payload_get_published(published) == IF published = Absent THEN "false" ELSE published

\* variant: the reason does not depend on the parent
document_event_insert(parent, hid, uid) == EventRow(parent, hid, uid, "insert")

\* the event row post_document inserts for the node it created
document_event_of(parent, hid, uid) ==
    EventRow(parent, hid, uid, IF parent = NULL THEN "insert" ELSE "update")

\* the statements of post_document: node insert, then edge insert, then COMMIT
post_document_statements(db, new_hid, uid, parent, published) ==
    LET node == insert_hist(db, new_hid, HistRow(payload_get_published(published)))
    IN  IF node.err # NoError THEN node
        ELSE insert_event_commit(node.db, document_event_of(parent, new_hid, uid))

\* POST /document[/<parent>]: "async with pg.transaction()"
post_document(db, new_hid, uid, parent, published) ==
    transaction(db, post_document_statements(db, new_hid, uid, parent, published))

\* POST /edge/<parent>/<hist>: one statement, committed on its own
post_edge_event(db, parent, hist, uid, reason) ==
    transaction(db, insert_event_commit(db, EventRow(parent, hist, uid, reason)))

\* POST /node: the body may carry its own hid and published
post_node(db, hid, published) == insert_hist(db, hid, HistRow(published))

\* the body post_document answers with on success: the hid and the tstamp
\* the node insert returned (node["tstamp"] and its formatting: a NULL tstamp
\* is answered as null)
post_document_response(db, hid) ==
    [hid |-> hid, content_tstamp |-> db.H[hid].tstamp]

\* the body post_node answers with on success
post_node_response(db, hid) == [status |-> "inserted", hid |-> hid]

\* PATCH /node/<hid> with body {"published": pub}
patch_node(db, hid, pub) ==
    IF hid \notin DOMAIN db.H THEN Res(NoError, db)
    ELSE update_hist(db, hid, pub)

\* DELETE /node/<hid>
delete_node(db, hid) ==
    IF hid \notin DOMAIN db.H THEN Res(NotFound, db)
    ELSE delete_hist(db, hid)

\* PATCH /edge/<parent>/<hist> with body {"parent": p2, "hist": h2}: an UPDATE
\* of document_event, on which only the indexes and the foreign keys act
patch_edge_event(db, parent, hist, p2, h2) ==
    LET old == {e \in db.E : e.parent = parent /\ e.hist = hist}
        upd == {[e EXCEPT !.parent = p2, !.hist = h2] : e \in old}
    IN  IF old = {} THEN Res(NoError, db)
        ELSE IF KeyStored(db.E \ old, p2, h2) THEN Res(UniqueViolation, db)
        ELSE IF p2 # NULL /\ p2 \notin DOMAIN db.H THEN Res(ForeignKeyViolation, db)
        ELSE IF h2 \notin DOMAIN db.H THEN Res(ForeignKeyViolation, db)
        ELSE Res(NoError, Db(db.H, (db.E \ old) \cup upd, db.U))

\* DELETE /edge/<parent>/<hist>: the row is deleted and committed, then the
\* handler calls .split() on the list pg.fetch returned
delete_edge_event(db, parent, hist) ==
    Res(ServerError,
        Db(db.H, {e \in db.E : ~(e.parent = parent /\ e.hist = hist)}, db.U))

\* PUT /edge/<parent>/<hist>: one transaction, delete then insert
put_edge_event(db, parent, hist, uid, reason) ==
    LET del == Db(db.H, {e \in db.E : ~(e.parent = parent /\ e.hist = hist)}, db.U)
    IN  transaction(db, insert_event_commit(del, EventRow(parent, hist, uid, reason)))

\* PUT /node/<hid>: one transaction, delete then insert of the body's row
put_node(db, hid, new_hid, published) ==
    LET del == IF hid \in DOMAIN db.H THEN delete_hist(db, hid) ELSE Res(NoError, db)
    IN  transaction(db, IF del.err # NoError THEN del
                        ELSE insert_hist(del.db, new_hid, HistRow(published)))

\* GET /graph/<hid>: the recursive CTE all_events of get_graph
RECURSIVE full_events_query(_, _)
full_events_query(E, S) ==
    LET step == S \cup {evt \in E : \E ref \in S :
                         \/ (evt.parent # NULL /\ evt.parent = ref.hist)
                         \/ (ref.parent # NULL /\ evt.hist = ref.parent)}
    IN  IF step = S THEN S ELSE full_events_query(E, step)

get_graph_edges(db, hid) == full_events_query(db.E, {e \in db.E : e.hist = hid})
\* the second query of get_graph: the nodes whose hid is the hist of an edge
fetch_nodes(db, edges) == {h \in DOMAIN db.H : h \in {r.hist : r \in edges}}
get_graph_nodes(db, hid) == fetch_nodes(db, get_graph_edges(db, hid))

\* variant: both queries run in a read-committed transaction, each on the
\* state committed when it starts
read_committed(snapshot, db) == db

\* pg.transaction(isolation="repeatable_read"): every query of the
\* transaction reads the snapshot taken by its first query, whatever was
\* committed since (db)
repeatable_read(snapshot, db) == snapshot

\* the columns of document_hist that t_document_hist.select() reads
document_hist_columns == {"hid", "pid", "title", "metadata", "published", "tstamp"}
Gone == "gone"
\* document_hist.deleted of every row: the server default of the column, as
\* no statement of the handlers can name a column t_document_hist lacks
deleted_default == "false"

\* GET /node/<hid>: node["deleted"] is read from the selected row, and a
\* column the row does not carry raises KeyError (a 500 response)
get_node(db, hid) ==
    IF hid \notin DOMAIN db.H THEN NotFound
    ELSE IF "deleted" \notin document_hist_columns THEN ServerError
    ELSE IF deleted_default = "true" THEN Gone
    ELSE NoError

\* a row of user_info: tstamp and last_auth both default to SQL_UTC
UserRow(tstamp, last_auth) == [tstamp |-> tstamp, last_auth |-> last_auth]

\* the directory as one authentication meets it: whether the administrator
\* bind succeeds, whether the search then finds the user, whether the bind
\* as that user with the password given then succeeds
Directory ==
    {d \in [admin : BOOLEAN, found : BOOLEAN, password : BOOLEAN] :
        (d.found => d.admin) /\ (d.password => d.found)}
Accepting == [admin |-> TRUE, found |-> TRUE, password |-> TRUE]
LDAPUserNotFound == "LDAPUserNotFound"
LDAPInvalidCredentials == "LDAPInvalidCredentials"
LDAPInvalidAdminCredentials == "LDAPInvalidAdminCredentials"
AuthError == "AuthError"

\* LDAPAuth.get_user_data: the exception it raises, if any
get_user_data(d) ==
    IF ~d.admin THEN LDAPInvalidAdminCredentials
    ELSE IF ~d.found THEN LDAPUserNotFound
    ELSE NoError

\* LDAPAuth.authenticate: the exception it raises, if any
ldap_authenticate(d) ==
    IF get_user_data(d) # NoError THEN get_user_data(d)
    ELSE IF ~d.password THEN LDAPInvalidCredentials
    ELSE NoError

\* variant: the row of a user that exists is replaced by a new one
upsert_user_info_replace(U, username, t) ==
    [v \in DOMAIN U \cup {username} |-> IF v = username THEN UserRow(t, t) ELSE U[v]]

\* INSERT INTO user_info (uid) ... ON CONFLICT (uid) DO UPDATE
\* SET last_auth = SQL_UTC, at time t
upsert_user_info(U, username, t) ==
    IF username \in DOMAIN U THEN [U EXCEPT ![username].last_auth = t]
    ELSE U @@ (username :> UserRow(t, t))

\* authenticate() of gd.py at time t: the exception it ends with, if any,
\* and the database it leaves
authenticate(db, username, d, t) ==
    IF ldap_authenticate(d) \in {LDAPInvalidCredentials, LDAPUserNotFound}
        THEN Res(AuthError, db)
    ELSE IF ldap_authenticate(d) # NoError THEN Res(ldap_authenticate(d), db)
    ELSE Res(NoError, Db(db.H, db.E, upsert_user_info(db.U, username, t)))

\* ------------------------------------------------------------------------
\* Snapshots
\* ------------------------------------------------------------------------
\* the opaque JSON document clients send as data, and its source label
SnapshotData == {"d1"}
SnapshotSource == "client"
InvalidSnapshot == "invalid_snapshot"

\* a row of table snapshot; (data, source, tstamp) is its primary key
SnapshotRow(data, source, tstamp, uid) ==
    [data |-> data, source |-> source, tstamp |-> tstamp, uid |-> uid]
\* the JSON object of a POST /snapshot body or of one line of a batch: data
\* and source, and the keys tstamp and uid when the client sent them (NULL
\* and Absent when it did not)
Payload(data, tstamp, uid) ==
    [data |-> data, source |-> SnapshotSource, tstamp |-> tstamp, uid |-> uid]
\* an empty body
NoPayload == Payload("", NULL, Absent)

\* datetime.fromtimestamp: seconds since the epoch to the datetime of that
\* second (timestamps are whole seconds of one clock)
fromtimestamp(ts) == ts

\* a row with the primary key of new is stored
SnapshotStored(S, new) ==
    \E r \in S : r.data = new.data /\ r.source = new.source /\ r.tstamp = new.tstamp

\* the row a payload is inserted as by a session of uid at time t: tstamp
\* defaults to SQL_UTC
snapshot_values(payload, uid, t) ==
    SnapshotRow(payload.data, payload.source,
                IF payload.tstamp = NULL THEN t ELSE fromtimestamp(payload.tstamp),
                uid)

\* the result of a snapshot request: the error answered, the table left,
\* and the tstamp or count of the response
SnapshotRes(err, S, value) == [err |-> err, S |-> S, value |-> value]

\* POST /snapshot: INSERT INTO snapshot ... RETURNING tstamp
post_snapshot(S, U, payload, uid, t) ==
    IF payload = NoPayload \/ payload.uid # Absent THEN SnapshotRes(InvalidSnapshot, S, NULL)
    ELSE LET new == snapshot_values(payload, uid, t)
         IN  IF SnapshotStored(S, new) THEN SnapshotRes(UniqueViolation, S, NULL)
             ELSE IF new.uid \notin DOMAIN U THEN SnapshotRes(ForeignKeyViolation, S, NULL)
             ELSE SnapshotRes(NoError, S \cup {new}, new.tstamp)

\* INSERT INTO snapshot VALUES rows ON CONFLICT DO NOTHING: the rows are
\* inserted in order, one whose key is stored by then is skipped
RECURSIVE insert_do_nothing(_, _)
insert_do_nothing(S, rows) ==
    IF rows = <<>> THEN S
    ELSE insert_do_nothing(IF SnapshotStored(S, Head(rows)) THEN S ELSE S \cup {Head(rows)},
                           Tail(rows))

\* variant: the count is that of the lines submitted
post_snapshot_batch_submitted(S, U, lines, uid, t) ==
    LET rows == [i \in 1..Len(lines) |-> snapshot_values(lines[i], uid, t)]
        left == insert_do_nothing(S, rows)
    IN  IF \E i \in 1..Len(lines) : lines[i].uid # Absent
            THEN SnapshotRes(InvalidSnapshot, S, NULL)
        ELSE IF left # S /\ uid \notin DOMAIN U THEN SnapshotRes(ForeignKeyViolation, S, NULL)
        ELSE SnapshotRes(NoError, left, Len(lines))

\* variant: the rows collected before the line that carries a uid are
\* inserted
post_snapshot_batch_partial(S, U, lines, uid, t) ==
    LET bad == {i \in 1..Len(lines) : lines[i].uid # Absent}
        upto == IF bad = {} THEN Len(lines)
                ELSE (CHOOSE i \in bad : \A j \in bad : i <= j) - 1
        rows == [i \in 1..upto |-> snapshot_values(lines[i], uid, t)]
        left == insert_do_nothing(S, rows)
    IN  IF left # S /\ uid \notin DOMAIN U THEN SnapshotRes(ForeignKeyViolation, S, NULL)
        ELSE IF bad # {} THEN SnapshotRes(InvalidSnapshot, left, NULL)
        ELSE SnapshotRes(NoError, left, Cardinality(left) - Cardinality(S))

\* variant: the INSERT has no ON CONFLICT clause
post_snapshot_batch_plain(S, U, lines, uid, t) ==
    LET rows == [i \in 1..Len(lines) |-> snapshot_values(lines[i], uid, t)]
    IN  IF \E i \in 1..Len(lines) : lines[i].uid # Absent
            THEN SnapshotRes(InvalidSnapshot, S, NULL)
        ELSE IF \/ \E i \in 1..Len(rows) : SnapshotStored(S, rows[i])
                \/ \E i, j \in 1..Len(rows) : i # j /\ rows[i] = rows[j]
            THEN SnapshotRes(UniqueViolation, S, NULL)
        ELSE IF rows # <<>> /\ uid \notin DOMAIN U THEN SnapshotRes(ForeignKeyViolation, S, NULL)
        ELSE SnapshotRes(NoError, S \cup {rows[i] : i \in 1..Len(rows)}, Len(rows))

\* POST /snapshot/batch: a line that carries a uid ends the request before
\* any row is inserted; the count is that of the rows the statement
\* returned
post_snapshot_batch(S, U, lines, uid, t) ==
    LET rows == [i \in 1..Len(lines) |-> snapshot_values(lines[i], uid, t)]
        left == insert_do_nothing(S, rows)
    IN  IF \E i \in 1..Len(lines) : lines[i].uid # Absent
            THEN SnapshotRes(InvalidSnapshot, S, NULL)
        ELSE IF left # S /\ uid \notin DOMAIN U THEN SnapshotRes(ForeignKeyViolation, S, NULL)
        ELSE SnapshotRes(NoError, left, Cardinality(left) - Cardinality(S))

\* POST /auth as the graph requests see it: the error answered and the
\* database left (post_handler, create_response, create_jwe, authenticate)
post_auth(db, username, d, t) ==
    LET r == authenticate(db, username, d, t)
    IN  IF r.err = AuthError THEN Res(Unauthorized, r.db)
        ELSE IF r.err # NoError THEN Res(ServerError, r.db)
        ELSE r

\* ------------------------------------------------------------------------
\* Requests
\* ------------------------------------------------------------------------
\* the last exchange: the handler reached, the error answered and, on success,
\* the hid created (POST /document) or addressed (PATCH, DELETE /node); NULL
\* otherwise
Response(op, err, hid) == [op |-> op, err |-> err, hid |-> hid]

\* the state a handler leaves, and its answer
Answer(op, r, hid) ==
    /\ document_hist' = r.db.H
    /\ document_event' = r.db.E
    /\ user_info' = r.db.U
    /\ last' = Response(op, r.err, IF r.err = NoError THEN hid ELSE NULL)
    /\ requests' = requests + 1
    /\ UNCHANGED <<txn, graph, token_vars, t_snapshot>>

\* gen_random_uuid(): a value no row ever had
gen_random_uuid == next_hid
\* uuids a request can name: those earlier responses returned, and one that
\* no row ever had
Hids == 1..next_hid
Parents == {NULL} \cup Hids
\* the server still answers requests
Serving == requests < MaxRequests
\* require_authorization let the request through: its token carries the uid
\* of a user that authenticated
Sessions == DOMAIN user_info
\* the hids of the rows of document_hist
Nodes == DOMAIN document_hist
\* the uuid is used up only when its row is committed
UseUuid(r, hid) ==
    next_hid' = IF r.err = NoError /\ hid = next_hid THEN next_hid + 1 ELSE next_hid

Authenticate ==
    /\ Serving
    /\ \E u \in Users, d \in Directory :
        /\ Answer("authenticate", post_auth(CurrentDb, u, d, now), NULL)
        /\ UNCHANGED next_hid

PostDocument ==
    /\ Serving
    /\ \E uid \in Sessions, parent \in Parents,
          published \in {Absent, "true", "false"} :
        LET r == post_document(CurrentDb, gen_random_uuid, uid, parent, published)
        IN  Answer("post_document", r, gen_random_uuid) /\ UseUuid(r, gen_random_uuid)

PostNode ==
    /\ Serving /\ Sessions # {}
    /\ \E hid \in Hids, published \in PubValues :
        LET r == post_node(CurrentDb, hid, published)
        IN  Answer("post_node", r, hid) /\ UseUuid(r, hid)

PatchNode ==
    /\ Serving /\ Sessions # {}
    /\ \E hid \in Hids, pub \in PubValues :
        /\ Answer("patch_node", patch_node(CurrentDb, hid, pub), hid)
        /\ UNCHANGED next_hid

DeleteNode ==
    /\ Serving /\ Sessions # {}
    /\ \E hid \in Hids :
        /\ Answer("delete_node", delete_node(CurrentDb, hid), hid)
        /\ UNCHANGED next_hid

PostEdge ==
    /\ Serving /\ Sessions # {}
    /\ \E parent \in Parents, hist \in Hids, uid \in Uids :
        /\ Answer("post_edge_event",
                  post_edge_event(CurrentDb, parent, hist, uid, ManualReason), NULL)
        /\ UNCHANGED next_hid

PatchEdge ==
    /\ Serving /\ Sessions # {}
    /\ \E parent \in Parents, hist \in Hids, p2 \in Parents, h2 \in Hids :
        /\ p2 = parent \/ h2 = hist
        /\ Answer("patch_edge_event",
                  patch_edge_event(CurrentDb, parent, hist, p2, h2), NULL)
        /\ UNCHANGED next_hid

DeleteEdge ==
    /\ Serving /\ Sessions # {}
    /\ \E parent \in Parents, hist \in Hids :
        /\ Answer("delete_edge_event", delete_edge_event(CurrentDb, parent, hist), NULL)
        /\ UNCHANGED next_hid

PutEdge ==
    /\ Serving /\ Sessions # {}
    /\ \E parent \in Parents, hist \in Hids, uid \in Uids \cup {Absent} :
        /\ Answer("put_edge_event",
                  put_edge_event(CurrentDb, parent, hist, uid, ManualReason), NULL)
        /\ UNCHANGED next_hid

PutNode ==
    /\ Serving /\ Sessions # {}
    /\ \E hid \in Hids, new_hid \in Hids, published \in {"true", "false"} :
        /\ new_hid \in {hid, gen_random_uuid}
        /\ LET r == put_node(CurrentDb, hid, new_hid, published)
           IN  Answer("put_node", r, new_hid) /\ UseUuid(r, new_hid)

GetGraph ==
    /\ Serving
    /\ \E hid \in Hids :
        /\ last' = Response("get_graph", NoError, NULL)
        /\ requests' = requests + 1
        /\ UNCHANGED <<document_hist, document_event, user_info, next_hid, txn, graph, token_vars, t_snapshot>>

GetNode ==
    /\ Serving
    /\ \E hid \in Hids :
        /\ last' = Response("get_node", get_node(CurrentDb, hid), NULL)
        /\ requests' = requests + 1
        /\ UNCHANGED <<document_hist, document_event, user_info, next_hid, txn, graph, token_vars, t_snapshot>>

\* the two createEdge requests that run concurrently
Procs == {1, 2}
NoTxn == [pc |-> "idle", parent |-> NULL, hist |-> NULL, uid |-> "", err |-> NoError]

\* ------------------------------------------------------------------------
\* Token codec (jweconv.py) and session authenticator (jweauth.py)
\* ------------------------------------------------------------------------
\* A token string is the compact form of a JWE: what matters of it is the key
\* it was encrypted under, whether one of its four parts was altered since,
\* and the claims of its payload.
ServerKey == "octet"
OtherKey == "other"
JWEParts == {"encrypted_key", "iv", "ciphertext", "tag"}

\* no token string (a request without Authorization header)
NoToken == [form |-> "none", key |-> "", altered |-> "", exp |-> NULL,
            nbf |-> NULL, sub |-> ""]
\* an Authorization header that does not start with "Bearer "
UnknownHeader == [form |-> "unknown", key |-> "", altered |-> "", exp |-> NULL,
                  nbf |-> NULL, sub |-> ""]
\* a string that does not deserialize as a JWE
Malformed == [form |-> "malformed", key |-> "", altered |-> "", exp |-> NULL,
              nbf |-> NULL, sub |-> ""]

\* JWEConverter.encrypt(claims, exp_delta, nbf, sub) at time t: the payload
\* carries exp = now + exp_delta and nbf = nbf or now
encrypt(key, sub, t, exp_delta, nbf) ==
    [form |-> "jwe", key |-> key, altered |-> "",
     exp |-> t + exp_delta, nbf |-> IF nbf = NULL THEN t ELSE nbf, sub |-> sub]

JWEInvalid == "JWEInvalid"
InvalidJWEData == "InvalidJWEData"
JWEExpired == "JWEExpired"
JWENotYetValid == "JWENotYetValid"
NoAuthorizationHeader == "NoAuthorizationHeader"
UnknownAuthorizationHeader == "UnknownAuthorizationHeader"

NoClaims == [exp |-> NULL, nbf |-> NULL, sub |-> ""]
ClaimsOf(token_str) == [exp |-> token_str.exp, nbf |-> token_str.nbf, sub |-> token_str.sub]
Raise(exc) == [err |-> exc, claims |-> NoClaims]

\* variant: the exp claim is checked whatever the flag
decrypt_always_checked(key, token_str, t, check_exp) ==
    IF token_str.form # "jwe" THEN Raise(JWEInvalid)
    ELSE IF token_str.key # key \/ token_str.altered # "" THEN Raise(InvalidJWEData)
    ELSE IF t > token_str.exp THEN Raise(JWEExpired)
    ELSE IF t < token_str.nbf THEN Raise(JWENotYetValid)
    ELSE [err |-> NoError, claims |-> ClaimsOf(token_str)]

\* variant: the nbf claim is not checked
decrypt_unchecked_nbf(key, token_str, t, check_exp) ==
    IF token_str.form # "jwe" THEN Raise(JWEInvalid)
    ELSE IF token_str.key # key \/ token_str.altered # "" THEN Raise(InvalidJWEData)
    ELSE IF check_exp /\ t > token_str.exp THEN Raise(JWEExpired)
    ELSE [err |-> NoError, claims |-> ClaimsOf(token_str)]

\* JWEConverter.decrypt(token_str, check_exp) at time t: deserialize raises
\* on a string that is not a JWE, and that is re-raised as JWEInvalid;
\* etoken.decrypt(self.key), outside the try block, raises the library's
\* InvalidJWEData when the key unwrap or the authentication tag fails; the
\* payload of a token that decrypts was written by encrypt (JSON with sub,
\* exp and nbf); then exp is checked, then nbf
decrypt(key, token_str, t, check_exp) ==
    IF token_str.form # "jwe" THEN Raise(JWEInvalid)
    ELSE IF token_str.key # key \/ token_str.altered # "" THEN Raise(InvalidJWEData)
    ELSE IF check_exp /\ t > token_str.exp THEN Raise(JWEExpired)
    ELSE IF t < token_str.nbf THEN Raise(JWENotYetValid)
    ELSE [err |-> NoError, claims |-> ClaimsOf(token_str)]

\* SanicJWEAuth.get_jwe on a request without Authorization header (or with
\* an empty bearer token), with a header of another scheme, or with the
\* bearer token token_str
get_jwe(token_str, t, check_exp) ==
    IF token_str = UnknownHeader THEN Raise(UnknownAuthorizationHeader)
    ELSE IF token_str = NoToken THEN Raise(NoAuthorizationHeader)
    ELSE decrypt(ServerKey, token_str, t, check_exp)

\* variant: the challenge carries the realm only
unauthorized_realm_only(error) == [err |-> Unauthorized, error |-> "", token |-> NoToken]

\* a response of the authenticator: 401 {"error": "unauthorized"} with the
\* error parameter of its challenge, or 200 with the access token
unauthorized(error) == [err |-> Unauthorized, error |-> error, token |-> NoToken]
access_token(token_str) == [err |-> NoError, error |-> "", token |-> token_str]

\* variant: the wrapper does not check the exp claim
require_authorization_unchecked(token_str, t) ==
    LET jwe == get_jwe(token_str, t, FALSE)
    IN  IF jwe.err \in {NoAuthorizationHeader, UnknownAuthorizationHeader} THEN unauthorized("")
        ELSE IF jwe.err = JWENotYetValid THEN unauthorized("unsynchronized")
        ELSE IF jwe.err \in {JWEInvalid, InvalidJWEData, JWEExpired}
            THEN unauthorized("invalid_token")
        ELSE access_token(token_str)

\* the wrapper of require_authorization around a handler that answers 200;
\* the except clauses name the exceptions of the converter by their role
\* (not yet valid; invalid or expired)
require_authorization(token_str, t) ==
    LET jwe == get_jwe(token_str, t, TRUE)
    IN  IF jwe.err \in {NoAuthorizationHeader, UnknownAuthorizationHeader} THEN unauthorized("")
        ELSE IF jwe.err = JWENotYetValid THEN unauthorized("unsynchronized")
        ELSE IF jwe.err \in {JWEInvalid, InvalidJWEData, JWEExpired}
            THEN unauthorized("invalid_token")
        ELSE access_token(token_str)

\* an exception no handler of the application catches: 500
internal_server_error == [err |-> ServerError, error |-> "", token |-> NoToken]
\* the ways authenticate() of gd.py ends
AuthOutcomes == {NoError, AuthError, LDAPInvalidAdminCredentials}

\* handler_wrapper of require_authorization around a handler: the 401 and
\* the state as it was (refused), or what the handler answers and leaves
handler_wrapper(header, t, refused, answered) ==
    IF require_authorization(header, t).err # NoError THEN refused ELSE answered
\* request["session"]["uid"]: the sub claim of the token
session_uid(header) == header.sub

\* create_response / create_jwe: authenticate(**auth_kwargs) is called and
\* ends with auth_err; an exception of auth_exceptions is answered 401, any
\* other leaves create_response
create_response(auth_err, sub, t, nbf) ==
    IF auth_err = AuthError THEN unauthorized("")
    ELSE IF auth_err # NoError THEN internal_server_error
    ELSE access_token(encrypt(ServerKey, sub, t, token_duration, nbf))

\* POST /auth
post_handler(auth_err, username, t) == create_response(auth_err, username, t, NULL)

\* variant: the refreshed token starts a new session window
get_handler_new_session(auth_err, token_str, t) ==
    LET jwe == get_jwe(token_str, t, FALSE)
    IN  IF jwe.err \in {NoAuthorizationHeader, UnknownAuthorizationHeader} THEN unauthorized("")
        ELSE IF jwe.err = JWENotYetValid THEN unauthorized("unsynchronized")
        ELSE IF jwe.err \in {JWEInvalid, InvalidJWEData} THEN unauthorized("invalid_token")
        ELSE IF t - jwe.claims.nbf > session_duration THEN unauthorized("invalid_token")
        ELSE create_response(auth_err, jwe.claims.sub, t, NULL)

\* variant: the refresh route checks the exp claim
get_handler_checked(auth_err, token_str, t) ==
    LET jwe == get_jwe(token_str, t, TRUE)
    IN  IF jwe.err \in {NoAuthorizationHeader, UnknownAuthorizationHeader} THEN unauthorized("")
        ELSE IF jwe.err = JWENotYetValid THEN unauthorized("unsynchronized")
        ELSE IF jwe.err \in {JWEInvalid, InvalidJWEData, JWEExpired}
            THEN unauthorized("invalid_token")
        ELSE IF t - jwe.claims.nbf > session_duration THEN unauthorized("invalid_token")
        ELSE create_response(auth_err, jwe.claims.sub, t, jwe.claims.nbf)

\* variant: the refresh route issues the token without calling authenticate
get_handler_unverified(auth_err, token_str, t) ==
    LET jwe == get_jwe(token_str, t, FALSE)
    IN  IF jwe.err \in {NoAuthorizationHeader, UnknownAuthorizationHeader} THEN unauthorized("")
        ELSE IF jwe.err = JWENotYetValid THEN unauthorized("unsynchronized")
        ELSE IF jwe.err \in {JWEInvalid, InvalidJWEData} THEN unauthorized("invalid_token")
        ELSE IF t - jwe.claims.nbf > session_duration THEN unauthorized("invalid_token")
        ELSE create_response(NoError, jwe.claims.sub, t, jwe.claims.nbf)

\* GET /auth, the refresh route
get_handler(auth_err, token_str, t) ==
    LET jwe == get_jwe(token_str, t, FALSE)
    IN  IF jwe.err \in {NoAuthorizationHeader, UnknownAuthorizationHeader} THEN unauthorized("")
        ELSE IF jwe.err = JWENotYetValid THEN unauthorized("unsynchronized")
        ELSE IF jwe.err \in {JWEInvalid, InvalidJWEData} THEN unauthorized("invalid_token")
        ELSE IF t - jwe.claims.nbf > session_duration THEN unauthorized("invalid_token")
        ELSE create_response(auth_err, jwe.claims.sub, t, jwe.claims.nbf)

\* the last token operation: its name, the error it ended with, the exp
\* claim of the token presented, the check_exp flag and the time
TokenOp(op, err, token_str, check_exp) ==
    [op |-> op, err |-> err, exp |-> token_str.exp, check_exp |-> check_exp, at |-> now]

\* no get_graph request in flight
NoGraph == [pc |-> "idle", hid |-> NULL, snapshot |-> Db(<<>>, {}, <<>>),
            edges |-> {}, nodes |-> {}]

Init ==
    /\ graph = NoGraph
    /\ now = 1
    /\ held = NoToken
    /\ origin = NULL
    /\ jwe_last = [op |-> "", err |-> "", exp |-> NULL, check_exp |-> FALSE, at |-> NULL]
    /\ document_hist = <<>>
    /\ document_event = {}
    /\ user_info = <<>>
    /\ next_hid = 1
    /\ last = Response("", NoError, NULL)
    /\ requests = 0
    /\ txn = [p \in Procs |-> NoTxn]
    /\ t_snapshot = {}

Next ==
    \/ Authenticate
    \/ PostDocument
    \/ PostNode
    \/ PatchNode
    \/ DeleteNode
    \/ PostEdge
    \/ PatchEdge
    \/ DeleteEdge
    \/ PutEdge
    \/ PutNode
    \/ GetGraph
    \/ GetNode

Spec == Init /\ [][Next]_vars

\* ------------------------------------------------------------------------
\* Two post_edge_event requests served concurrently. Each INSERT runs in its
\* own transaction, in three steps other transactions interleave with: the
\* statement (indexes, foreign keys, immediate trigger), the deferred trigger
\* fired by COMMIT, and the commit that makes the row visible. A transaction
\* reads the committed rows and its own row.
\* ------------------------------------------------------------------------
InFlight(q) == txn[q].pc \in {"inserted", "checked"}
NoneInFlight == \A q \in Procs : txn[q].pc = "idle"
TxnRow(q) == EventRow(txn[q].parent, txn[q].hist, txn[q].uid, ManualReason)

\* variant: an INSERT never waits for another transaction
NeverWaits(p, parent, hist) == FALSE

\* the unique indexes make an INSERT wait for an open transaction that
\* inserted the same key
WaitsFor(p, parent, hist) ==
    \E q \in Procs \ {p} :
        InFlight(q) /\ txn[q].parent = parent /\ txn[q].hist = hist

\* the INSERT statement of request p
TxnInsert(p) ==
    /\ txn[p].pc = "idle"
    /\ \A q \in Procs : q < p => txn[q].pc # "idle"
    /\ \E parent \in {NULL} \cup Nodes, hist \in Nodes, uid \in Sessions :
        /\ ~WaitsFor(p, parent, hist)
        /\ LET r == insert_event(CurrentDb, EventRow(parent, hist, uid, ManualReason))
           IN  txn' = [txn EXCEPT ![p] =
                        [pc |-> IF r.err = NoError THEN "inserted" ELSE "done",
                         parent |-> parent, hist |-> hist, uid |-> uid,
                         err |-> r.err]]
    /\ UNCHANGED <<document_hist, document_event, user_info, next_hid, last, requests,
                   graph, token_vars, t_snapshot>>

\* COMMIT of request p fires the deferred trigger on its row
TxnDeferredCheck(p) ==
    /\ txn[p].pc = "inserted"
    /\ LET own == Db(document_hist, document_event \cup {TxnRow(p)}, user_info)
           err == commit_insert_event(own, TxnRow(p))
       IN  txn' = [txn EXCEPT ![p].pc = IF err = NoError THEN "checked" ELSE "done",
                              ![p].err = err]
    /\ UNCHANGED <<document_hist, document_event, user_info, next_hid, last, requests,
                   graph, token_vars, t_snapshot>>

\* the row of request p becomes visible
TxnCommit(p) ==
    /\ txn[p].pc = "checked"
    /\ document_event' = document_event \cup {TxnRow(p)}
    /\ txn' = [txn EXCEPT ![p].pc = "done"]
    /\ UNCHANGED <<document_hist, user_info, next_hid, last, requests, graph, token_vars, t_snapshot>>

\* the requests answered before the concurrent ones arrive
RaceSetup ==
    /\ NoneInFlight
    /\ \/ Authenticate
       \/ Cardinality(Nodes) < MaxNodes /\ PostNode

NextRace ==
    \/ RaceSetup
    \/ \E p \in Procs : TxnInsert(p)
    \/ \E p \in Procs : TxnDeferredCheck(p)
    \/ \E p \in Procs : TxnCommit(p)

SpecRace == Init /\ [][NextRace]_vars

\* ------------------------------------------------------------------------
\* A get_graph request served while other requests commit. Its two queries
\* run in one repeatable-read transaction; the requests of the writers are
\* committed between them.
\* ------------------------------------------------------------------------
\* conn.fetch(full_events_query): the first query of the transaction takes
\* the snapshot
GraphFetchEdges ==
    /\ graph.pc = "idle"
    /\ \E hid \in Nodes :
        graph' = [pc |-> "edges", hid |-> hid, snapshot |-> CurrentDb,
                  edges |-> get_graph_edges(CurrentDb, hid), nodes |-> {}]
    /\ UNCHANGED <<document_hist, document_event, user_info, next_hid, last, requests,
                   txn, token_vars, t_snapshot>>

\* conn.fetch(t_document_hist.select() ...): the second query, which ends
\* the request
GraphFetchNodes ==
    /\ graph.pc = "edges"
    /\ graph' = [graph EXCEPT
                    !.pc = "done",
                    !.nodes = fetch_nodes(repeatable_read(graph.snapshot, CurrentDb),
                                          graph.edges)]
    /\ UNCHANGED <<document_hist, document_event, user_info, next_hid, last, requests,
                   txn, token_vars, t_snapshot>>

\* the requests that commit before and during the get_graph request
GraphWriters ==
    /\ graph.pc # "done"
    /\ \/ Authenticate
       \/ PostDocument
       \/ DeleteNode
       \/ PostEdge
       \/ PatchEdge
       \/ DeleteEdge

NextSnapshot ==
    \/ GraphWriters
    \/ GraphFetchEdges
    \/ GraphFetchNodes

SpecSnapshot == Init /\ [][NextSnapshot]_vars

\* ------------------------------------------------------------------------
\* The token operations over time: a client that holds one token string,
\* obtained from the authenticator or written by itself
\* ------------------------------------------------------------------------
TokenFrame ==
    UNCHANGED <<document_hist, document_event, next_hid, last, requests, txn, graph,
                t_snapshot>>

\* a second passes
Tick ==
    /\ now < MaxTime
    /\ now' = now + 1
    /\ UNCHANGED <<held, origin, jwe_last, user_info>> /\ TokenFrame

\* JWEConverter.encrypt called with a duration and a not-before of choice
Encrypt ==
    /\ \E sub \in Users, exp_delta \in 1..token_duration, nbf \in {NULL} \cup (1..MaxTime) :
        /\ held' = encrypt(ServerKey, sub, now, exp_delta, nbf)
        /\ jwe_last' = TokenOp("encrypt", NoError, NoToken, FALSE)
    /\ origin' = NULL
    /\ UNCHANGED <<now, user_info>> /\ TokenFrame

\* the client alters one of the four parts of the string it holds
Alter ==
    /\ held.form = "jwe" /\ held.altered = ""
    /\ \E part \in JWEParts : held' = [held EXCEPT !.altered = part]
    /\ UNCHANGED <<now, origin, jwe_last, user_info>> /\ TokenFrame

\* the client writes a string itself: not a JWE, or a JWE under another key
Forge ==
    /\ \E sub \in Users :
        held' \in {Malformed, encrypt(OtherKey, sub, now, token_duration, NULL)}
    /\ origin' = NULL
    /\ UNCHANGED <<now, jwe_last, user_info>> /\ TokenFrame

\* JWEConverter.decrypt of the held string
Decrypt ==
    /\ held # NoToken
    /\ \E check_exp \in BOOLEAN :
        jwe_last' = TokenOp("decrypt", decrypt(ServerKey, held, now, check_exp).err,
                            held, check_exp)
    /\ UNCHANGED <<now, held, origin, user_info>> /\ TokenFrame

\* POST /auth: the directory accepts the credentials or not; authenticate()
\* of gd.py upserts the user it accepted
Login ==
    /\ \E d \in Directory, username \in Users :
        LET a == authenticate(CurrentDb, username, d, now)
            r == post_handler(a.err, username, now)
        IN  /\ held' = IF r.err = NoError THEN r.token ELSE held
            /\ origin' = IF r.err = NoError THEN now ELSE origin
            /\ user_info' = a.db.U
            /\ jwe_last' = TokenOp("post_handler", r.err, NoToken, FALSE)
    /\ UNCHANGED now /\ TokenFrame

\* GET /auth with the held string as bearer token
Refresh ==
    /\ \E d \in Directory :
        LET a == authenticate(CurrentDb, held.sub, d, now)
            r == get_handler(a.err, held, now)
        IN  /\ held' = IF r.err = NoError THEN r.token ELSE held
            /\ user_info' = IF r.err = NoError THEN a.db.U ELSE user_info
            /\ jwe_last' = TokenOp("get_handler", r.err, held, FALSE)
    /\ UNCHANGED <<now, origin>> /\ TokenFrame

\* a request to a route behind require_authorization with the held string
Authorize ==
    /\ jwe_last' = TokenOp("require_authorization", require_authorization(held, now).err,
                           held, TRUE)
    /\ UNCHANGED <<now, held, origin, user_info>> /\ TokenFrame

NextToken ==
    \/ Tick
    \/ Encrypt
    \/ Alter
    \/ Forge
    \/ Decrypt
    \/ Login
    \/ Refresh
    \/ Authorize

SpecToken == Init /\ [][NextToken]_vars

\* ------------------------------------------------------------------------
\* Snapshot ingestion over time: sessions that post snapshots one by one
\* and in batches
\* ------------------------------------------------------------------------
\* the bodies clients send: lines with or without their own tstamp, lines
\* that carry a uid, and an empty body
ValidLines == {Payload(data, tstamp, Absent) :
                data \in SnapshotData, tstamp \in {NULL} \cup (1..MaxStamp)}
UidLines == {Payload("d1", NULL, uid) : uid \in Uids}
Payloads == ValidLines \cup UidLines \cup {NoPayload}
\* the INSERT of a batch is compiled with the columns of its rows: the
\* lines of a batch that reaches it all carry a tstamp, or none does
SameKeys(lines) ==
    \/ \E i \in 1..Len(lines) : lines[i].uid # Absent
    \/ \A i, j \in 1..Len(lines) : (lines[i].tstamp = NULL) = (lines[j].tstamp = NULL)
Batches ==
    {lines \in UNION {[1..n -> ValidLines \cup UidLines] : n \in 0..MaxLines} :
        SameKeys(lines)}

\* the state a snapshot handler leaves, and its answer
AnswerSnapshot(op, r) ==
    /\ t_snapshot' = r.S
    /\ last' = Response(op, r.err, NULL)
    /\ requests' = requests + 1
    /\ UNCHANGED <<document_hist, document_event, user_info, next_hid, txn, graph,
                   token_vars>>

PostSnapshot ==
    /\ Serving
    /\ \E uid \in Sessions, payload \in Payloads :
        AnswerSnapshot("post_snapshot", post_snapshot(t_snapshot, user_info, payload, uid, now))

PostSnapshotBatch ==
    /\ Serving
    /\ \E uid \in Sessions, lines \in Batches :
        AnswerSnapshot("post_snapshot_batch",
                       post_snapshot_batch(t_snapshot, user_info, lines, uid, now))

NextIngest ==
    \/ Tick
    \/ Authenticate
    \/ PostSnapshot
    \/ PostSnapshotBatch

SpecIngest == Init /\ [][NextIngest]_vars

\* ------------------------------------------------------------------------
\* Requests with an Authorization header to routes behind
\* require_authorization, over time
\* ------------------------------------------------------------------------
\* the tokens the server's converter issued up to time t, each valid from
\* its issue or from the second after t
IssuedTokens(t) ==
    {encrypt(ServerKey, sub, t0, token_duration, nbf) :
        sub \in Users, t0 \in 1..t, nbf \in {NULL, t + 1}}
\* what a request at time t carries: no Authorization header, a header of
\* another scheme, or a bearer token: a string that is no JWE, a token of
\* another key, an issued token, or one just issued with a part altered
RequestHeaders(t) ==
    {NoToken, UnknownHeader, Malformed}
        \cup {encrypt(OtherKey, sub, t, token_duration, NULL) : sub \in Users}
        \cup IssuedTokens(t)
        \cup {[encrypt(ServerKey, sub, t, token_duration, NULL) EXCEPT !.altered = part] :
                 sub \in Users, part \in JWEParts}

\* what get_jwe ended with in the wrapper of the last request
Gate(op, header) ==
    [op |-> op, err |-> get_jwe(header, now, TRUE).err, exp |-> NULL,
     check_exp |-> TRUE, at |-> NULL]

\* POST /document with an Authorization header
GuardedPostDocument ==
    /\ Serving
    /\ \E header \in RequestHeaders(now) :
        LET r == handler_wrapper(header, now, Res(Unauthorized, CurrentDb),
                    post_document(CurrentDb, gen_random_uuid, session_uid(header),
                                  NULL, Absent))
        IN  /\ document_hist' = r.db.H
            /\ document_event' = r.db.E
            /\ user_info' = r.db.U
            /\ last' = Response("post_document", r.err,
                                 IF r.err = NoError THEN gen_random_uuid ELSE NULL)
            /\ UseUuid(r, gen_random_uuid)
            /\ jwe_last' = Gate("require_authorization", header)
    /\ requests' = requests + 1
    /\ UNCHANGED <<txn, graph, now, held, origin, t_snapshot>>

\* POST /snapshot with an Authorization header
GuardedPostSnapshot ==
    /\ Serving
    /\ \E header \in RequestHeaders(now), payload \in ValidLines :
        LET r == handler_wrapper(header, now, SnapshotRes(Unauthorized, t_snapshot, NULL),
                    post_snapshot(t_snapshot, user_info, payload, session_uid(header), now))
        IN  /\ t_snapshot' = r.S
            /\ last' = Response("post_snapshot", r.err, NULL)
            /\ jwe_last' = Gate("require_authorization", header)
    /\ requests' = requests + 1
    /\ UNCHANGED <<document_hist, document_event, user_info, next_hid, txn, graph, now,
                   held, origin>>

NextGate ==
    \/ Tick
    \/ Authenticate
    \/ GuardedPostDocument
    \/ GuardedPostSnapshot

SpecGate == Init /\ [][NextGate]_vars

\* ------------------------------------------------------------------------
\* Graph notions the properties are stated with
\* ------------------------------------------------------------------------
\* the nodes reached from the nodes of S by following parent -> hist edges
RECURSIVE Descendants(_, _)
Descendants(E, S) ==
    LET step == S \cup {e.hist : e \in {x \in E : x.parent # NULL /\ x.parent \in S}}
    IN  IF step = S THEN S ELSE Descendants(E, step)

\* the nodes reached from n in one or more parent -> hist steps
ReachableFrom(E, n) == Descendants(E, {e.hist : e \in {x \in E : x.parent = n}})

\* a is an ancestor of p through the edges of E
IsAncestor(E, a, p) == p \in ReachableFrom(E, a)


\* ------------------------------------------------------------------------
\* C1
\* ------------------------------------------------------------------------
\* C1 (as claimed): in every reachable state no node is reached from itself
\* by following parent -> hist edges.
C1_Acyclic == \A n \in Nodes : n \notin ReachableFrom(document_event, n)

\* ------------------------------------------------------------------------
\* C2
\* ------------------------------------------------------------------------
\* the insert statement of createEdge(P, H) by uid passes its immediate checks
InsertPasses(P, H, uid) ==
    /\ ~KeyStored(document_event, P, H)
    /\ P \in Nodes /\ H \in Nodes /\ uid \in Sessions
    /\ document_hist[P].published # "false"

\* C2 (as claimed): createEdge(P, H) with H = P or H an ancestor of P, on
\* existing nodes and by a registered user, fails with parent_cycle and
\* leaves the stored state unchanged.
C2_CycleAlwaysParentCycle ==
    \A P \in Nodes, H \in Nodes, uid \in Sessions :
        (H = P \/ IsAncestor(document_event, H, P)) =>
            LET r == post_edge_event(CurrentDb, P, H, uid, ManualReason)
            IN  r.err = ParentCycle /\ r.db = CurrentDb

\* C2 (amended): createEdge(P, H) with non-null P and H = P or H an ancestor
\* of P never commits and leaves the stored state unchanged; its error is
\* parent_cycle exactly when the insert statement passes its immediate checks
\* (no duplicate key, P and H exist, uid registered, P not unpublished).
C2_CycleNeverCommits ==
    \A P \in Hids, H \in Hids, uid \in Uids :
        (H = P \/ IsAncestor(document_event, H, P)) =>
            LET r == post_edge_event(CurrentDb, P, H, uid, ManualReason)
            IN  /\ r.err # NoError
                /\ r.db = CurrentDb
                /\ (r.err = ParentCycle) = InsertPasses(P, H, uid)

\* C2 witness: with the edge 1 -> 2 stored and both nodes published, a
\* createEdge was answered parent_cycle, and createEdge(parent = 2, hist = 1),
\* whose hist is an ancestor of its parent, is answered parent_cycle there.
C2_Witness ==
    /\ last.op = "post_edge_event" /\ last.err = ParentCycle
    /\ KeyStored(document_event, 1, 2)
    /\ IsAncestor(document_event, 1, 2)
    /\ post_edge_event(CurrentDb, 2, 1, "u1", ManualReason).err = ParentCycle

\* ------------------------------------------------------------------------
\* C3
\* ------------------------------------------------------------------------
\* the nodes whose published flag is false
Unpublished == {n \in Nodes : document_hist[n].published = "false"}

\* createDocument under an unpublished parent fails with unpublished_parent
\* and persists nothing
DocumentUnderUnpublishedFails(P) ==
    \A uid \in Sessions, published \in {Absent, "true", "false"} :
        LET r == post_document(CurrentDb, gen_random_uuid, uid, P, published)
        IN  r.err = UnpublishedParent /\ r.db = CurrentDb

\* C3 (as claimed): createEdge and createDocument under an existing parent
\* with published = false always fail with unpublished_parent and persist
\* nothing.
C3_AlwaysUnpublishedParent ==
    \A P \in Unpublished :
        /\ DocumentUnderUnpublishedFails(P)
        /\ \A H \in Hids, uid \in Uids :
            LET r == post_edge_event(CurrentDb, P, H, uid, ManualReason)
            IN  r.err = UnpublishedParent /\ r.db = CurrentDb

\* C3 (amended): createDocument under an existing parent with published =
\* false always fails with unpublished_parent; createEdge under such a parent
\* always fails, with unpublished_parent exactly when the key is not stored,
\* hist exists and uid is registered (otherwise with the unique or foreign
\* key violation raised before the trigger); nothing is persisted.
C3_UnpublishedParentRejected ==
    \A P \in Unpublished :
        /\ DocumentUnderUnpublishedFails(P)
        /\ \A H \in Hids, uid \in Uids :
            LET r == post_edge_event(CurrentDb, P, H, uid, ManualReason)
            IN  /\ r.err # NoError
                /\ r.db = CurrentDb
                /\ (r.err = UnpublishedParent) =
                       (/\ ~KeyStored(document_event, P, H)
                        /\ H \in Nodes /\ uid \in Sessions)

\* C3 witness: a createEdge was answered unpublished_parent while an
\* unpublished node exists.
C3_Witness ==
    /\ last.op = "post_edge_event" /\ last.err = UnpublishedParent
    /\ Unpublished # {}

\* ------------------------------------------------------------------------
\* C4
\* ------------------------------------------------------------------------
\* C4 (as claimed): every edge with a non-null parent has a parent whose
\* published flag is true.
C4_ParentsPublished ==
    \A e \in document_event :
        e.parent # NULL =>
            e.parent \in Nodes /\ document_hist[e.parent].published = "true"

\* ------------------------------------------------------------------------
\* C5
\* ------------------------------------------------------------------------
\* C5: no two stored edges share a (parent, hist) pair, the null parent
\* included, and whenever an edge (null, H) is stored a createEdge(null, H)
\* by any uid fails with the unique violation and changes nothing.
C5_EdgeKeysUnique ==
    /\ \A e1 \in document_event, e2 \in document_event :
        (e1.parent = e2.parent /\ e1.hist = e2.hist) => e1 = e2
    /\ \A H \in Hids, uid \in Uids :
        KeyStored(document_event, NULL, H) =>
            LET r == post_edge_event(CurrentDb, NULL, H, uid, ManualReason)
            IN  r.err = UniqueViolation /\ r.db = CurrentDb

\* C5 witness: every stored edge has a null parent and a createEdge was
\* answered with the unique violation.
C5_Witness ==
    /\ last.op = "post_edge_event" /\ last.err = UniqueViolation
    /\ document_event # {}
    /\ \A e \in document_event : e.parent = NULL

\* ------------------------------------------------------------------------
\* C6
\* ------------------------------------------------------------------------
\* both concurrent requests were answered and they named the same key
SameKeyDone(p, q) ==
    /\ p # q
    /\ txn[p].pc = "done" /\ txn[q].pc = "done"
    /\ txn[p].parent = txn[q].parent /\ txn[p].hist = txn[q].hist

\* the stored state the two requests arrived on: no other request writes
\* while they run
ArrivalDb(p, q) ==
    Db(document_hist, document_event \ {TxnRow(p), TxnRow(q)}, user_info)

\* the error request p gets when it is served alone on that state
AloneErr(p, q) ==
    post_edge_event(ArrivalDb(p, q), txn[p].parent, txn[p].hist, txn[p].uid,
                    ManualReason).err

\* C6 (as claimed): of two concurrent createEdge requests for the same key,
\* exactly one commits and the other fails with the unique violation.
C6_ExactlyOneWinner ==
    \A p \in Procs, q \in Procs :
        SameKeyDone(p, q) =>
            \/ txn[p].err = NoError /\ txn[q].err = UniqueViolation
            \/ txn[q].err = NoError /\ txn[p].err = UniqueViolation

\* C6 (amended): of two concurrent createEdge requests for the same key, in
\* every interleaving at most one commits; when the request is one that
\* createEdge accepts when served alone, exactly one commits and the other
\* fails with the unique violation; otherwise both fail with the error the
\* request gets when served alone.
C6_OneWinnerWhenValid ==
    \A p \in Procs, q \in Procs :
        SameKeyDone(p, q) =>
            /\ ~(txn[p].err = NoError /\ txn[q].err = NoError)
            /\ txn[p].err = NoError => TxnRow(p) \in document_event
            /\ IF AloneErr(p, q) = NoError
               THEN \/ txn[p].err = NoError /\ txn[q].err = UniqueViolation
                    \/ txn[q].err = NoError /\ txn[p].err = UniqueViolation
               ELSE txn[p].err = AloneErr(p, q) /\ txn[q].err = AloneErr(p, q)

\* C6 witness: both requests named the null-parent key of node 1, the second
\* waited for the first, the first committed and the second was answered
\* with the unique violation.
C6_Witness ==
    /\ SameKeyDone(1, 2)
    /\ txn[1].parent = NULL /\ txn[1].hist = 1
    /\ txn[1].err = NoError /\ txn[2].err = UniqueViolation
    /\ TxnRow(1) \in document_event

\* ------------------------------------------------------------------------
\* C7
\* ------------------------------------------------------------------------
\* C7: a createDocument that succeeds stores exactly one new node, under an
\* id no node had, and exactly one new edge to it, with reason "insert" for a
\* null parent and "update" otherwise; with a null parent it always succeeds;
\* the id the next call gets is again one no stored node has.
C7_DocumentCreatesNodeAndEdge ==
    /\ \A n \in Nodes : n < gen_random_uuid
    /\ \A uid \in Sessions, parent \in Parents, published \in {Absent, "true", "false"} :
        LET hid == gen_random_uuid
            r == post_document(CurrentDb, hid, uid, parent, published)
        IN  /\ parent = NULL => r.err = NoError
            /\ r.err = NoError =>
                /\ hid \notin Nodes
                /\ DOMAIN r.db.H = Nodes \cup {hid}
                /\ \A n \in Nodes : r.db.H[n] = document_hist[n]
                /\ r.db.E \ document_event =
                       {EventRow(parent, hid, uid,
                                 IF parent = NULL THEN "insert" ELSE "update")}
                /\ document_event \subseteq r.db.E

\* C7 witness: two createDocument calls with a null parent were answered, the
\* second with hid 2, and both nodes have their own "insert" edge.
C7_Witness ==
    /\ last.op = "post_document" /\ last.err = NoError /\ last.hid = 2
    /\ EventRow(NULL, 1, "u1", "insert") \in document_event
    /\ EventRow(NULL, 2, "u1", "insert") \in document_event

C9_PublishThenExtend ==
    /\ \A uid \in Sessions :
        LET r == post_document(CurrentDb, gen_random_uuid, uid, NULL, Absent)
        IN  r.err = NoError /\ r.db.H[gen_random_uuid].published = "false"
    /\ \A h \in Unpublished, uid \in Sessions, published \in {Absent, "true", "false"} :
        LET hid == gen_random_uuid
            before == post_document(CurrentDb, hid, uid, h, published)
            patch == patch_node(CurrentDb, h, "true")
            after == post_document(patch.db, hid, uid, h, published)
        IN  /\ before.err = UnpublishedParent
            /\ patch.err = NoError
            /\ patch.db.H[h].published = "true"
            /\ after.err = NoError
            /\ hid \in DOMAIN after.db.H
            /\ EventRow(h, hid, uid, "update") \in after.db.E

\* C9 witness: the scenario is under way: the last request was a patchNode
\* of node 1 that succeeded and left it published (the update trigger lets
\* it through only when the flag was not true before), node 1 is a root
\* document with no child yet, and createDocument under it now succeeds.
C9_Witness ==
    /\ last.op = "patch_node" /\ last.err = NoError /\ last.hid = 1
    /\ 1 \in Nodes /\ document_hist[1].published = "true"
    /\ document_event = {EventRow(NULL, 1, "u1", "insert")}
    /\ \A q \in Nodes \ {1} : document_hist[q].published = "true"
    /\ post_document(CurrentDb, gen_random_uuid, "u1", 1, Absent).err = NoError

\* ------------------------------------------------------------------------
\* C10
\* ------------------------------------------------------------------------
\* C10 (as claimed): for every hid, each edge getGraph returns has its hist
\* and its non-null parent among the nodes the same call returns.
C10_GraphClosed ==
    \A x \in Hids :
        \A e \in get_graph_edges(CurrentDb, x) :
            /\ e.hist \in get_graph_nodes(CurrentDb, x)
            /\ e.parent # NULL => e.parent \in get_graph_nodes(CurrentDb, x)
\* ------------------------------------------------------------------------
\* C11
\* ------------------------------------------------------------------------
\* the stored edges that touch node x
Touching(E, x) == {e \in E : e.hist = x \/ e.parent = x}

\* the least set of stored edges that holds S and every stored edge whose
\* parent or hist is the parent or hist of an edge of the set
RECURSIVE Component(_, _)
Component(E, S) ==
    LET ids(e) == {e.parent, e.hist} \ {NULL}
        step == S \cup {evt \in E : \E ref \in S : ids(evt) \cap ids(ref) # {}}
    IN  IF step = S THEN S ELSE Component(E, step)

\* C11: for every node id x, the edges getGraph(x) returns are exactly the
\* weakly-connected component of x: the least fixed point that starts from
\* the edges touching x and adds every stored edge sharing a parent or hist
\* id with an included edge.
C11_GraphIsComponent ==
    \A x \in Hids :
        get_graph_edges(CurrentDb, x) = Component(document_event, Touching(document_event, x))

\* ------------------------------------------------------------------------
\* C13
\* ------------------------------------------------------------------------
\* the published nodes that are the parent of a stored edge
PublishedParents ==
    {h \in Nodes : document_hist[h].published = "true"
                    /\ \E e \in document_event : e.parent = h}

\* C13: patchNode, deleteNode and replaceNode of a published node that is
\* the parent of at least one edge fail, whatever the request body, and leave
\* every node and every edge as they were.
C13_PublishedParentFrozen ==
    \A h \in PublishedParents :
        /\ \A pub \in PubValues :
            LET r == patch_node(CurrentDb, h, pub)
            IN  r.err # NoError /\ r.db = CurrentDb
        /\ LET r == delete_node(CurrentDb, h)
           IN  r.err # NoError /\ r.db = CurrentDb
        /\ \A new_hid \in Hids, pub \in PubValues :
            LET r == put_node(CurrentDb, h, new_hid, pub)
            IN  r.err # NoError /\ r.db = CurrentDb

\* C13 witness: node 1 is published and the parent of node 2, node 2 is
\* unpublished and childless (its delete would have succeeded), and the last
\* request was a deleteNode that failed: the one of node 1.
C13_Witness ==
    /\ last.op = "delete_node" /\ last.err \in {AlreadyPublished, ForeignKeyViolation}
    /\ Nodes = {1, 2} /\ PublishedParents = {1}
    /\ document_hist[2].published = "false"
    /\ KeyStored(document_event, 1, 2)

\* ------------------------------------------------------------------------
\* C14
\* ------------------------------------------------------------------------
\* C14: a successful deleteNode(x) removes node x and, with it, every edge
\* whose hist is x and no other edge; and in every state every stored edge
\* points to a stored node, so no edge points to a deleted node.
C14_DeleteCascades ==
    /\ \A x \in Hids :
        LET r == delete_node(CurrentDb, x)
        IN  r.err = NoError =>
                /\ x \in Nodes /\ x \notin DOMAIN r.db.H
                /\ r.db.E = {e \in document_event : e.hist # x}
                /\ \A e \in r.db.E : e.parent # x
    /\ \A e \in document_event : e.hist \in Nodes

\* C14 witness: the last request was a deleteNode of node 2 that succeeded;
\* node 2 is gone, node 1 and its creating edge remain and no edge points to
\* node 2.
C14_Witness ==
    /\ last.op = "delete_node" /\ last.err = NoError /\ last.hid = 2
    /\ Nodes = {1}
    /\ document_event = {EventRow(NULL, 1, "u1", "insert")}

\* ------------------------------------------------------------------------
\* C15
\* ------------------------------------------------------------------------
\* C15: getNode(id) answers not_found when no node has that id, gone when
\* the node is flagged deleted, and the node's attributes otherwise.
C15_GetNode ==
    \A hid \in Hids :
        get_node(CurrentDb, hid) =
            IF hid \notin Nodes THEN NotFound
            ELSE IF deleted_default = "true" THEN Gone
            ELSE NoError

\* ------------------------------------------------------------------------
\* C12
\* ------------------------------------------------------------------------
\* C12: whatever the writers commit while a getGraph request runs, the
\* response is getGraph evaluated on one committed state (the one the
\* request's first query saw), and every returned edge has its hist node in
\* the returned nodes.
C12_ConsistentSnapshot ==
    graph.pc = "done" =>
        /\ graph.edges = get_graph_edges(graph.snapshot, graph.hid)
        /\ graph.nodes = get_graph_nodes(graph.snapshot, graph.hid)
        /\ \A e \in graph.edges : e.hist \in graph.nodes

\* C12 witness: a getGraph request returned an edge whose hist node was
\* deleted between its two queries.
C12_Witness ==
    /\ graph.pc = "done"
    /\ \E e \in graph.edges : e.hist \notin Nodes /\ e.hist \in graph.nodes

\* ------------------------------------------------------------------------
\* C16
\* ------------------------------------------------------------------------
\* the held string is a token produced by encrypt under the server's key and
\* not altered since
Own(token_str) ==
    token_str.form = "jwe" /\ token_str.key = ServerKey /\ token_str.altered = ""

\* C16: for a token produced by encrypt whose not-before is reached and
\* whose expiry is past, decrypt with check_exp true fails with the expired
\* error, and decrypt with check_exp false succeeds and returns the claims
\* the token embeds.
C16_ExpiredToken ==
    (Own(held) /\ held.nbf <= now /\ now > held.exp) =>
        /\ decrypt(ServerKey, held, now, TRUE).err = JWEExpired
        /\ decrypt(ServerKey, held, now, FALSE) = [err |-> NoError, claims |-> ClaimsOf(held)]

\* C16 witness: the held token, past its expiry and its not-before, has just
\* been decrypted with check_exp false, without error.
C16_Witness ==
    /\ Own(held) /\ held.nbf <= now /\ now > held.exp
    /\ jwe_last = TokenOp("decrypt", NoError, held, FALSE)

\* ------------------------------------------------------------------------
\* C17
\* ------------------------------------------------------------------------
\* C17 (as claimed): before the not-before of a token, decrypt fails with
\* the not-yet-valid error, whatever check_exp.
C17_AlwaysNotYetValid ==
    (Own(held) /\ now < held.nbf) =>
        \A check_exp \in BOOLEAN :
            decrypt(ServerKey, held, now, check_exp).err = JWENotYetValid

\* C17 (amended): before the not-before of a token, decrypt never returns
\* claims; it fails with the not-yet-valid error, except that with check_exp
\* true a token that is past its expiry as well fails with the expired error.
C17_NotYetValidUnlessExpired ==
    (Own(held) /\ now < held.nbf) =>
        \A check_exp \in BOOLEAN :
            LET d == decrypt(ServerKey, held, now, check_exp)
            IN  /\ d.claims = NoClaims
                /\ d.err = IF check_exp /\ now > held.exp THEN JWEExpired
                           ELSE JWENotYetValid

\* C17 witness: the held token, whose not-before is still ahead, has just
\* been decrypted with check_exp false and the not-yet-valid error.
C17_Witness ==
    /\ Own(held) /\ now < held.nbf
    /\ jwe_last = TokenOp("decrypt", JWENotYetValid, held, FALSE)

\* ------------------------------------------------------------------------
\* C18
\* ------------------------------------------------------------------------
\* C18: for a string that encrypt did not produce under the server's key (a
\* malformed string, a token with one of its four parts altered, a token of
\* another key), decrypt fails with the token-invalid error and returns no
\* claims.
C18_InvalidToken ==
    (held # NoToken /\ ~Own(held)) =>
        \A check_exp \in BOOLEAN :
            decrypt(ServerKey, held, now, check_exp) = Raise(JWEInvalid)

\* ------------------------------------------------------------------------
\* C19
\* ------------------------------------------------------------------------
\* C19: a token that descends, through any number of refreshes, from an
\* authentication at time t0 carries not-before t0, and a refresh attempted
\* with it later than t0 + session_duration is answered 401, expired or not,
\* whether the directory accepts the credentials or not.
C19_SessionWindow ==
    (origin # NULL /\ Own(held)) =>
        /\ held.nbf = origin
        /\ now > origin + session_duration =>
                \A auth_err \in AuthOutcomes : get_handler(auth_err, held, now).err = Unauthorized

\* C19 witness: the held token was reissued by a refresh (its expiry is not
\* the one of the token authenticate issued), is not expired, and the
\* refresh just attempted with it after the session window was answered 401.
C19_Witness ==
    /\ origin # NULL /\ Own(held)
    /\ held.exp # origin + token_duration
    /\ now > origin + session_duration /\ now <= held.exp
    /\ jwe_last = TokenOp("get_handler", Unauthorized, held, FALSE)

\* ------------------------------------------------------------------------
\* C20
\* ------------------------------------------------------------------------
\* the held token descends from an authentication, is past its expiry and
\* within the session window of its not-before
ExpiredInSession ==
    /\ origin # NULL /\ Own(held)
    /\ now > held.exp
    /\ now - held.nbf <= session_duration

C22_SameRejection ==
    \A u \in Users, d \in Directory \ {Accepting} :
        /\ post_handler(authenticate(CurrentDb, u, d, now).err, u, now) = unauthorized("")
        /\ post_auth(CurrentDb, u, d, now) = Res(Unauthorized, CurrentDb)

\* ------------------------------------------------------------------------
\* C23
\* ------------------------------------------------------------------------
\* C23: authenticate writes the user table only when the directory verified
\* the credentials: it then leaves one row for the user, created with both
\* timestamps at the time of the call if there was none, otherwise the row
\* there was with only last_auth updated, and every other row as it was;
\* when the directory rejects the attempt the table is unchanged. The graph
\* tables are never touched.
C23_UserRecord ==
    \A u \in Users, d \in Directory :
        LET r == authenticate(CurrentDb, u, d, now)
        IN  /\ r.db.H = document_hist /\ r.db.E = document_event
            /\ d # Accepting => r.err # NoError /\ r.db.U = user_info
            /\ d = Accepting =>
                /\ r.err = NoError
                /\ DOMAIN r.db.U = DOMAIN user_info \cup {u}
                /\ \A v \in DOMAIN user_info \ {u} : r.db.U[v] = user_info[v]
                /\ r.db.U[u] = IF u \in DOMAIN user_info
                                THEN UserRow(user_info[u].tstamp, now)
                                ELSE UserRow(now, now)

\* C23 witness: a user created at an earlier second has just authenticated
\* again, and its row keeps the creation time and carries the time of this
\* authentication.
C23_Witness ==
    /\ "u1" \in DOMAIN user_info
    /\ user_info["u1"].tstamp < now /\ user_info["u1"].last_auth = now
    /\ jwe_last = TokenOp("post_handler", NoError, NoToken, FALSE)

\* ------------------------------------------------------------------------
\* C24
\* ------------------------------------------------------------------------
\* a batch of distinct valid lines, none of them stored yet for a request
\* of this second
FreshBatch(lines) ==
    /\ Len(lines) >= 1
    /\ \A i \in 1..Len(lines) :
        /\ lines[i] \in ValidLines
        /\ ~SnapshotStored(t_snapshot, snapshot_values(lines[i], "", now))
    /\ \A i, j \in 1..Len(lines) : i # j => lines[i] # lines[j]
\* the batch is posted now and once more at t2: count N, then count 0 and
\* the table the first call left
TwiceIsOnce(lines, uid, t2) ==
    LET r1 == post_snapshot_batch(t_snapshot, user_info, lines, uid, now)
        r2 == post_snapshot_batch(r1.S, user_info, lines, uid, t2)
    IN  /\ r1.err = NoError /\ r1.value = Len(lines)
        /\ r2.err = NoError /\ r2.value = 0
        /\ r2.S = r1.S

\* C24 (as claimed): a batch of N distinct valid lines, with or without
\* their own tstamp, posted twice returns count N and then count 0, and the
\* second call leaves the snapshot table as the first left it.
C24_BatchIdempotent ==
    \A lines \in Batches :
        FreshBatch(lines) =>
            \A uid \in Sessions, t2 \in now..MaxTime : TwiceIsOnce(lines, uid, t2)

\* C24 (amended): a batch of N distinct valid lines that carry their own
\* tstamp, posted twice, returns count N and then count 0, and the second
\* call leaves the snapshot table as the first left it.
C24_StampedBatchIdempotent ==
    \A lines \in Batches :
        (FreshBatch(lines) /\ \A i \in 1..Len(lines) : lines[i].tstamp # NULL) =>
            \A uid \in Sessions, t2 \in now..MaxTime : TwiceIsOnce(lines, uid, t2)

\* C24 witness: a batch request has just been answered, the rows of a batch
\* of two distinct stamped lines are stored, and posting that batch (again)
\* returns count 0 and leaves the table as it is.
C24_Witness ==
    /\ last.op = "post_snapshot_batch" /\ last.err = NoError
    /\ \E uid \in Sessions, lines \in Batches :
        /\ Len(lines) = 2 /\ lines[1] # lines[2]
        /\ \A i \in 1..2 :
            /\ lines[i] \in ValidLines /\ lines[i].tstamp # NULL
            /\ snapshot_values(lines[i], uid, now) \in t_snapshot
        /\ post_snapshot_batch(t_snapshot, user_info, lines, uid, now)
                = SnapshotRes(NoError, t_snapshot, 0)

\* ------------------------------------------------------------------------
\* C25
\* ------------------------------------------------------------------------
\* C25: POST /snapshot of a valid payload whose (data, source, tstamp) key
\* is stored succeeds and leaves the snapshot table as it is.
C25_ResubmitIgnored ==
    \A uid \in Sessions, payload \in ValidLines :
        SnapshotStored(t_snapshot, snapshot_values(payload, uid, now)) =>
            LET r == post_snapshot(t_snapshot, user_info, payload, uid, now)
            IN  r.err = NoError /\ r.S = t_snapshot

\* ------------------------------------------------------------------------
\* C26
\* ------------------------------------------------------------------------
\* C26: every stored snapshot carries the uid of a session; the rows a
\* request adds carry the uid of its session; POST /snapshot with a payload
\* that carries a uid, and POST /snapshot/batch with a line that carries
\* one, are answered invalid_snapshot and leave the snapshot table as it
\* was, whatever the other lines of the batch.
C26_SessionUid ==
    /\ \A row \in t_snapshot : row.uid \in Sessions
    /\ \A uid \in Sessions, payload \in Payloads :
        LET r == post_snapshot(t_snapshot, user_info, payload, uid, now)
        IN  /\ \A row \in r.S \ t_snapshot : row.uid = uid
            /\ payload.uid # Absent => r = SnapshotRes(InvalidSnapshot, t_snapshot, NULL)
    /\ \A uid \in Sessions, lines \in Batches :
        LET r == post_snapshot_batch(t_snapshot, user_info, lines, uid, now)
        IN  /\ \A row \in r.S \ t_snapshot : row.uid = uid
            /\ (\E i \in 1..Len(lines) : lines[i].uid # Absent) =>
                    r = SnapshotRes(InvalidSnapshot, t_snapshot, NULL)

\* C26 witness: snapshots are stored, a batch has just been answered
\* invalid_snapshot, and a batch of a line that is not stored yet followed by
\* a line that carries a uid is answered so.
C26_Witness ==
    /\ t_snapshot # {}
    /\ last = Response("post_snapshot_batch", InvalidSnapshot, NULL)
    /\ \E uid \in Sessions, lines \in Batches :
        /\ Len(lines) = 2
        /\ lines[1] \in ValidLines
        /\ ~SnapshotStored(t_snapshot, snapshot_values(lines[1], uid, now))
        /\ lines[2].uid \notin Sessions \cup {Absent}
        /\ post_snapshot_batch(t_snapshot, user_info, lines, uid, now).err = InvalidSnapshot

\* ------------------------------------------------------------------------
\* C21
\* ------------------------------------------------------------------------
\* the header is a bearer token that decrypts under the server key, not
\* past its exp and not before its nbf at time t
Authorized(header, t) ==
    /\ header.form = "jwe" /\ header.key = ServerKey /\ header.altered = ""
    /\ t <= header.exp /\ t >= header.nbf

\* what the wrapped graph handlers answer and leave when they run for the
\* session of uid, over their inputs
GraphAnswers(uid) ==
    {post_document(CurrentDb, gen_random_uuid, uid, parent, published) :
        parent \in Parents, published \in {Absent, "true", "false"}}
    \cup {post_edge_event(CurrentDb, parent, hist, uid, ManualReason) :
        parent \in Parents, hist \in Hids}
    \cup {delete_node(CurrentDb, hid) : hid \in Hids}

\* what post_snapshot answers and leaves when it runs for the session of uid
SnapshotAnswers(uid) ==
    {post_snapshot(t_snapshot, user_info, payload, uid, now) : payload \in Payloads}

\* what the wrapped handlers answer and leave for a request with this
\* header is what the handler does when the header is authorized, and
\* otherwise the 401 with the tables as they were
GateDecides(header, answers, snapshot_answers) ==
    LET ok == Authorized(header, now)
        refused == Res(Unauthorized, CurrentDb)
        refused_snapshot == SnapshotRes(Unauthorized, t_snapshot, NULL)
    IN  /\ require_authorization(header, now).err = (IF ok THEN NoError ELSE Unauthorized)
        /\ \A h \in answers :
            handler_wrapper(header, now, refused, h) = (IF ok THEN h ELSE refused)
        /\ \A h \in snapshot_answers :
            handler_wrapper(header, now, refused_snapshot, h)
                = (IF ok THEN h ELSE refused_snapshot)

\* the last request was one to a wrapped handler, and get_jwe raised in it
Refused ==
    /\ last.op \in {"post_document", "post_snapshot"}
    /\ jwe_last.op = "require_authorization" /\ jwe_last.err # NoError

Cause(header, t) ==
    IF header = NoToken THEN "missing_header"
    ELSE IF header = UnknownHeader THEN "malformed_header"
    ELSE IF header.form # "jwe" \/ header.key # ServerKey \/ header.altered # ""
        THEN "invalid_token"
    ELSE IF t <= header.exp /\ t < header.nbf THEN "not_yet_valid"
    ELSE ""

IntegrityConstraintViolationError == "IntegrityConstraintViolationError"
RaiseError == "RaiseError"
DataError == "DataError"
PostgresError == "PostgresError"

\* an exception of the database driver: the handled class it derives from,
\* the words of its own CamelCase class name, and its message
PostgresException(base, words, message) ==
    [base |-> base, words |-> words, message |-> message]

\* the exception behind each error of a graph operation: a violated unique
\* or foreign key constraint raises the driver's class of that name, a
\* trigger's RAISE EXCEPTION 'x' (no ERRCODE) raises RaiseError with message
\* x, anything else reaches the handlers as a plain PostgresError
Raised(err) ==
    IF err = UniqueViolation
    THEN PostgresException(IntegrityConstraintViolationError,
                           <<"unique", "violation", "error">>, "")
    ELSE IF err = ForeignKeyViolation
    THEN PostgresException(IntegrityConstraintViolationError,
                           <<"foreign", "key", "violation", "error">>, "")
    ELSE IF err = NotNullViolation
    THEN PostgresException(IntegrityConstraintViolationError,
                           <<"not", "null", "violation", "error">>, "")
    ELSE IF err \in {UnpublishedParent, ParentCycle, AlreadyPublished}
    THEN PostgresException(RaiseError, <<"raise", "error">>, err)
    ELSE PostgresException(PostgresError, <<"postgres", "error">>, err)

\* re.sub(r"([^A-Z])([A-Z])", r"\1_\2", name).lower(): the words of the
\* class name, lower-cased and joined with underscores
RECURSIVE snake_case(_)
snake_case(words) ==
    IF Len(words) = 1 THEN words[1]
    ELSE words[1] \o "_" \o snake_case(Tail(words))

HttpError(status, error) == [status |-> status, error |-> error]

\* variant: no handler is registered for RaiseError
handle_exception_unnamed(exc) ==
    IF exc.base = IntegrityConstraintViolationError
    THEN HttpError(400, snake_case(exc.words))
    ELSE IF exc.base = DataError THEN HttpError(500, "invalid_datatype")
    ELSE HttpError(500, "internal_database_error")

\* the @app.exception handlers of gd.py, in registration order
handle_exception(exc) ==
    IF exc.base = IntegrityConstraintViolationError
    THEN HttpError(400, snake_case(exc.words))
    ELSE IF exc.base = RaiseError THEN HttpError(400, exc.message)
    ELSE IF exc.base = DataError THEN HttpError(500, "invalid_datatype")
    ELSE HttpError(500, "internal_database_error")

\* the errors the storage raises for a violated constraint or trigger
StorageViolations ==
    {UniqueViolation, ForeignKeyViolation, NotNullViolation, UnpublishedParent,
     ParentCycle, AlreadyPublished}

\* the errors the mutating graph operations answer in the current state,
\* over all their inputs
GraphErrors ==
    {post_document(CurrentDb, gen_random_uuid, uid, parent, published).err :
        uid \in Uids, parent \in Parents, published \in {Absent, "true", "false"}}
    \cup {post_node(CurrentDb, hid, published).err :
        hid \in Hids, published \in PubValues}
    \cup {patch_node(CurrentDb, hid, pub).err : hid \in Hids, pub \in PubValues}
    \cup {delete_node(CurrentDb, hid).err : hid \in Hids}
    \cup {post_edge_event(CurrentDb, parent, hist, uid, ManualReason).err :
        parent \in Parents, hist \in Hids, uid \in Uids}
    \cup {patch_edge_event(CurrentDb, parent, hist, p2, h2).err :
        parent \in Parents, hist \in Hids, p2 \in Parents, h2 \in Hids}
    \cup {put_edge_event(CurrentDb, parent, hist, uid, ManualReason).err :
        parent \in Parents, hist \in Hids, uid \in Uids}
    \cup {put_node(CurrentDb, hid, new_hid, published).err :
        hid \in Hids, new_hid \in Hids, published \in {"true", "false"}}

\* C27: every storage integrity violation a graph operation raises is
\* answered with status 400 and the name of its kind, never with 500; a
\* duplicate edge, an edge under an unpublished parent and an edge closing a
\* cycle are answered with three different names.
C27_NamedViolations ==
    /\ \A err \in GraphErrors \cap StorageViolations :
           handle_exception(Raised(err)) = HttpError(400, err)
    /\ \A parent \in Parents, hist \in Hids, uid \in Uids :
        LET r == post_edge_event(CurrentDb, parent, hist, uid, ManualReason)
            answer == handle_exception(Raised(r.err))
        IN  /\ KeyStored(document_event, parent, hist) =>
                   answer = HttpError(400, "unique_violation_error")
            /\ (/\ ~KeyStored(document_event, parent, hist)
                /\ parent \in Unpublished /\ hist \in Nodes /\ uid \in Sessions)
                   => answer = HttpError(400, "unpublished_parent")
            /\ (/\ InsertPasses(parent, hist, uid)
                /\ (hist = parent \/ IsAncestor(document_event, hist, parent)))
                   => answer = HttpError(400, "parent_cycle")

\* C27 witness: a createEdge was answered parent_cycle while an edge is
\* stored under an unpublished parent, so that a duplicate edge, an edge
\* under an unpublished parent and an edge closing a cycle can all be
\* requested.
C27_Witness ==
    /\ last.op = "post_edge_event" /\ last.err = ParentCycle
    /\ {UniqueViolation, UnpublishedParent, ParentCycle} \subseteq GraphErrors


\* ------------------------------------------------------------------------
\* C28
\* ------------------------------------------------------------------------
\* C28 (as claimed): every node createNode or createDocument stores has the
\* server-generated id and a non-null creation timestamp, and the answer
\* carries both.
C28_IdAndTimestamp ==
    /\ \A uid \in Sessions, parent \in Parents,
          published \in {Absent, "true", "false"} :
        LET r == post_document(CurrentDb, gen_random_uuid, uid, parent, published)
            body == post_document_response(r.db, gen_random_uuid)
        IN  r.err = NoError =>
                /\ DOMAIN r.db.H \ Nodes = {gen_random_uuid}
                /\ r.db.H[gen_random_uuid].tstamp # NULL
                /\ body.hid = gen_random_uuid
                /\ body.content_tstamp # NULL
    /\ \A hid \in Hids, published \in PubValues :
        LET r == post_node(CurrentDb, hid, published)
            body == post_node_response(r.db, hid)
        IN  r.err = NoError =>
                /\ hid = gen_random_uuid
                /\ r.db.H[hid].tstamp # NULL
                /\ body.hid = hid
                /\ "tstamp" \in DOMAIN body


\* ------------------------------------------------------------------------
\* C30
\* ------------------------------------------------------------------------
\* the edge of request p closes no cycle with the edges of E
AcyclicWith(E, p) ==
    /\ txn[p].parent # NULL
    /\ txn[p].hist # txn[p].parent
    /\ ~IsAncestor(E, txn[p].hist, txn[p].parent)

\* both concurrent requests were answered; the edge of each closes no cycle
\* with the edges stored when they arrived, and closes one once the edge of
\* the other is stored too
CyclicTogetherDone(p, q) ==
    /\ p # q
    /\ txn[p].pc = "done" /\ txn[q].pc = "done"
    /\ AcyclicWith(ArrivalDb(p, q).E, p)
    /\ AcyclicWith(ArrivalDb(p, q).E, q)
    /\ ~AcyclicWith(ArrivalDb(p, q).E \cup {TxnRow(q)}, p)

\* C30 (as claimed): under concurrent edge insertion the graph stays
\* acyclic: of two concurrent createEdge requests whose edges are each
\* acyclic alone and cyclic together, in every interleaving of their insert,
\* deferred cycle check and commit steps at most one commits.
C30_AtMostOneCommits ==
    /\ \A n \in Nodes : n \notin ReachableFrom(document_event, n)
    /\ \A p \in Procs, q \in Procs :
        CyclicTogetherDone(p, q) =>
            ~(txn[p].err = NoError /\ txn[q].err = NoError)


\* ------------------------------------------------------------------------
\* The token codec called with a claims mapping of choice. The payload of a
\* token is the JSON object encrypt dumps: the default claims exp, nbf and
\* sub, overridden by the keys of the claims mapping.
\* ------------------------------------------------------------------------
\* the keys a claims mapping may carry and the values it gives them
ClaimKeys == {"exp", "nbf", "sub", "r"}
ClaimValues == {2, 4}
Restrict(f, S) == [k \in S |-> f[k]]
ClaimMaps == {Restrict(f, S) : S \in SUBSET ClaimKeys, f \in [ClaimKeys -> ClaimValues]}

\* variant: the default claims override the keys of the claims mapping
dumps_payload_defaults_last(claims, t, exp_delta, nbf, sub) ==
    [exp |-> t + exp_delta, nbf |-> IF nbf = NULL THEN t ELSE nbf, sub |-> sub] @@ claims

\* the dictionary encrypt dumps at time t:
\* {"exp": now + exp_delta, "nbf": nbf or now, "sub": sub, **claims}
dumps_payload(claims, t, exp_delta, nbf, sub) ==
    claims @@ [exp |-> t + exp_delta, nbf |-> IF nbf = NULL THEN t ELSE nbf, sub |-> sub]

\* JWEConverter.encrypt(claims, exp_delta, nbf, sub) at time t: the token
\* string with the claims decrypt checks and the whole payload
encrypt_claims(key, claims, t, exp_delta, nbf, sub) ==
    LET payload == dumps_payload(claims, t, exp_delta, nbf, sub)
    IN  [form |-> "jwe", key |-> key, altered |-> "", exp |-> payload.exp,
         nbf |-> payload.nbf, sub |-> payload.sub, payload |-> payload]

\* JWEConverter.decrypt(token_str, check_exp) at time t, with the mapping it
\* returns: ujson.loads of the payload
decrypt_claims(key, token_str, t, check_exp) ==
    LET r == decrypt(key, token_str, t, check_exp)
    IN  [err |-> r.err, claims |-> IF r.err = NoError THEN token_str.payload ELSE <<>>]

\* the last call of encrypt: its arguments and the time
EncryptCall(claims, exp_delta, nbf, t) ==
    [op |-> "encrypt", claims |-> claims, exp_delta |-> exp_delta, nbf |-> nbf, at |-> t]

CodecFrame ==
    UNCHANGED <<document_hist, document_event, user_info, next_hid, requests, txn,
                graph, t_snapshot, origin>>

\* a second passes
CodecTick ==
    /\ now < MaxTime
    /\ now' = now + 1
    /\ UNCHANGED <<held, jwe_last, last>> /\ CodecFrame

\* encrypt(claims, exp_delta, nbf) with the subject left to the claims; one
\* token is followed from its issue on
EncryptClaims ==
    /\ held = NoToken
    /\ \E claims \in ClaimMaps, exp_delta \in 1..token_duration,
          nbf \in {NULL} \cup (1..MaxTime) :
        /\ held' = encrypt_claims(ServerKey, claims, now, exp_delta, nbf, NULL)
        /\ last' = EncryptCall(claims, exp_delta, nbf, now)
    /\ jwe_last' = TokenOp("encrypt", NoError, NoToken, FALSE)
    /\ UNCHANGED now /\ CodecFrame

\* decrypt(token_str, check_exp) of the string encrypt returned
DecryptClaims ==
    /\ held # NoToken
    /\ \E check_exp \in BOOLEAN :
        jwe_last' = TokenOp("decrypt", decrypt_claims(ServerKey, held, now, check_exp).err,
                            held, check_exp)
    /\ UNCHANGED <<now, held, last>> /\ CodecFrame

NextCodec ==
    \/ CodecTick
    \/ EncryptClaims
    \/ DecryptClaims

SpecCodec == Init /\ [][NextCodec]_vars

\* ------------------------------------------------------------------------
\* C31
\* ------------------------------------------------------------------------
\* the time is inside the validity window of the held token
InWindow == held.nbf <= now /\ now <= held.exp

\* what decrypt returns for the held token carries every key of the claims
\* mapping encrypt was called with, an expiry of the issue time plus the
\* duration, and the not-before supplied or else the issue time
RoundTrip ==
    \A check_exp \in BOOLEAN :
        LET r == decrypt_claims(ServerKey, held, now, check_exp)
        IN  /\ r.err = NoError
            /\ \A k \in DOMAIN last.claims : k \in DOMAIN r.claims /\ r.claims[k] = last.claims[k]
            /\ r.claims.exp = last.at + last.exp_delta
            /\ r.claims.nbf = (IF last.nbf = NULL THEN last.at ELSE last.nbf)

auth_fields == [username |-> "sub", password |-> "p"]
session_fields == [uid |-> "sub", role |-> "r", name |-> "n"]

\* {fields[k]: v for k, v in data.items() if k in fields}
Remap(fields, data) ==
    LET keys == DOMAIN data \cap DOMAIN fields
    IN  [c \in {fields[k] : k \in keys} |-> data[CHOOSE k \in keys : fields[k] = c]]

\* variant: the session fields override the authentication inputs
create_jwe_claims_session_last(user_data, auth_kwargs) ==
    Remap(session_fields, user_data) @@ Remap(auth_fields, auth_kwargs)

\* the claims create_jwe hands to encrypt: {**session_jwe, **auth_jwe}
create_jwe_claims(user_data, auth_kwargs) ==
    Remap(auth_fields, auth_kwargs) @@ Remap(session_fields, user_data)

\* create_jwe at time t, once authenticate returned user_data
create_jwe(user_data, auth_kwargs, t, nbf) ==
    encrypt_claims(ServerKey, create_jwe_claims(user_data, auth_kwargs), t,
                   token_duration, nbf, NULL)

\* get_handler: auth_kwargs = {k: jwe[v] for k, v in self.auth_fields.items()}
refresh_auth_kwargs(jwe) == [k \in DOMAIN auth_fields |-> jwe[auth_fields[k]]]

\* what authenticate may return: the dictionary of gd.py (role and name),
\* and one of a callback that also returns the session field uid
UserData ==
    {[role |-> "admin", name |-> "cn"],
     [role |-> "admin", name |-> "cn", uid |-> "u0"]}
\* the usernames and the password a client may submit
Usernames == Users \cup {"u2"}
Credentials == {[username |-> u, password |-> "pw"] : u \in Usernames}

\* the token string without its payload: what the routes read of it
Compact(token_str) ==
    [f \in {"form", "key", "altered", "exp", "nbf", "sub"} |-> token_str[f]]

\* ------------------------------------------------------------------------
\* C32
\* ------------------------------------------------------------------------
\* C32: the subject of every issued token is the username submitted, also
\* when authenticate returns a session field that maps to the subject; the
\* subject of a refreshed token is the subject of the token presented.
C32_SubjectIsUsername ==
    /\ \A user_data \in UserData, auth_kwargs \in Credentials, nbf \in {NULL, now} :
        LET token_str == create_jwe(user_data, auth_kwargs, now, nbf)
            again == create_jwe(user_data, refresh_auth_kwargs(token_str.payload),
                                now, token_str.nbf)
        IN  /\ token_str.sub = auth_kwargs.username
            /\ Compact(token_str)
                   = create_response(NoError, auth_kwargs.username, now, nbf).token
            /\ again.sub = token_str.sub
            /\ LET r == get_handler(NoError, Compact(token_str), now)
               IN  r.err = NoError /\ r.token = Compact(again)
    /\ \A auth_err \in AuthOutcomes :
        LET r == get_handler(auth_err, held, now)
        IN  r.err = NoError => r.token.sub = held.sub

\* C32 witness: the token of a login was refreshed at a later second, and
\* the token held is the one the refresh issued, for the user that logged in.
C32_Witness ==
    /\ jwe_last.op = "get_handler" /\ jwe_last.err = NoError
    /\ origin # NULL /\ origin < now
    /\ held.sub = "u1" /\ held.nbf = origin /\ held.exp = now + token_duration


\* ------------------------------------------------------------------------
\* C33
\* ------------------------------------------------------------------------
\* the batches whose lines are all valid
ValidBatches == {lines \in Batches : \A i \in 1..Len(lines) : lines[i] \in ValidLines}

\* C33: a batch of valid lines is answered without error with the number of
\* rows it added: the snapshot table grows by exactly the rows of the lines
\* whose key was not stored, each once, and the count is their number; an
\* empty batch is answered 0 and leaves the table as it is, whoever sent it.
C33_CountIsGrowth ==
    /\ \A uid \in Sessions, lines \in ValidBatches :
        LET r == post_snapshot_batch(t_snapshot, user_info, lines, uid, now)
            rows == {snapshot_values(lines[i], uid, now) : i \in 1..Len(lines)}
            new == {row \in rows : ~SnapshotStored(t_snapshot, row)}
        IN  /\ r.err = NoError
            /\ r.S = t_snapshot \cup new
            /\ r.value = Cardinality(r.S) - Cardinality(t_snapshot)
            /\ r.value = Cardinality(new)
    /\ \A uid \in Uids :
        post_snapshot_batch(t_snapshot, user_info, <<>>, uid, now)
            = SnapshotRes(NoError, t_snapshot, 0)

\* C33 witness: a batch request has just been answered, and a batch of two
\* lines, the first stored and the second not, is answered count 1; a batch
\* of the second line twice is answered count 1 too.
C33_Witness ==
    /\ last = Response("post_snapshot_batch", NoError, NULL)
    /\ \E uid \in Sessions, lines \in ValidBatches :
        /\ Len(lines) = 2
        /\ SnapshotStored(t_snapshot, snapshot_values(lines[1], uid, now))
        /\ ~SnapshotStored(t_snapshot, snapshot_values(lines[2], uid, now))
        /\ post_snapshot_batch(t_snapshot, user_info, lines, uid, now).value = 1
        /\ post_snapshot_batch(t_snapshot, user_info, <<lines[2], lines[2]>>, uid, now).value = 1


\* ------------------------------------------------------------------------
\* C34
\* ------------------------------------------------------------------------
\* the held string is a token of the server whose not-before is reached and
\* whose session window is open
Refreshable ==
    /\ held.form = "jwe" /\ held.key = ServerKey /\ held.altered = ""
    /\ held.nbf <= now /\ now - held.nbf <= session_duration

\* the directory answers the administrator and rejects the credentials
Rejecting(d) == d.admin /\ ~(d.found /\ d.password)

\* C34: the refresh route calls authenticate with the credentials the
\* presented token carries; it issues a token only when the directory
\* accepts them at that time, and when the directory rejects them it answers
\* 401 without a token, also inside the session window and before expiry.
C34_RefreshReverifies ==
    /\ \A user_data \in UserData, auth_kwargs \in Credentials :
        refresh_auth_kwargs(create_jwe(user_data, auth_kwargs, now, NULL).payload)
            = auth_kwargs
    /\ \A d \in Directory :
        LET a == authenticate(CurrentDb, held.sub, d, now)
            r == get_handler(a.err, held, now)
        IN  /\ r.err = NoError => (d = Accepting /\ r.token # NoToken)
            /\ (Refreshable /\ d = Accepting) => r.err = NoError
            /\ (Refreshable /\ Rejecting(d)) =>
                   r = unauthorized("") /\ r.token = NoToken

\* C34 witness: a refresh was just attempted with a token of a login, not
\* expired and inside its session window, and was answered 401; the token
\* held is still the one presented.
C34_Witness ==
    /\ jwe_last.op = "get_handler" /\ jwe_last.err = Unauthorized /\ jwe_last.at = now
    /\ origin # NULL /\ Refreshable /\ now <= held.exp
    /\ jwe_last.exp = held.exp


\* ------------------------------------------------------------------------
\* C35
\* ------------------------------------------------------------------------
\* the nodes whose published flag is true
Published == {n \in Nodes : document_hist[n].published = "true"}

\* the states the mutating graph operations leave from the current one,
\* over all their inputs
GraphStates ==
    {post_document(CurrentDb, gen_random_uuid, uid, parent, published).db :
        uid \in Uids, parent \in Parents, published \in {Absent, "true", "false"}}
    \cup {post_node(CurrentDb, hid, published).db :
        hid \in Hids, published \in PubValues}
    \cup {patch_node(CurrentDb, hid, pub).db : hid \in Hids, pub \in PubValues}
    \cup {delete_node(CurrentDb, hid).db : hid \in Hids}
    \cup {post_edge_event(CurrentDb, parent, hist, uid, ManualReason).db :
        parent \in Parents, hist \in Hids, uid \in Uids}
    \cup {patch_edge_event(CurrentDb, parent, hist, p2, h2).db :
        parent \in Parents, hist \in Hids, p2 \in Parents, h2 \in Hids}
    \cup {delete_edge_event(CurrentDb, parent, hist).db :
        parent \in Parents, hist \in Hids}
    \cup {put_edge_event(CurrentDb, parent, hist, uid, ManualReason).db :
        parent \in Parents, hist \in Hids, uid \in Uids}
    \cup {put_node(CurrentDb, hid, new_hid, published).db :
        hid \in Hids, new_hid \in Hids, published \in {"true", "false"}}

\* whatever request comes next, node h is stored afterwards with the row it
\* has now
StaysAsIs(h) ==
    \A db \in GraphStates : h \in DOMAIN db.H /\ db.H[h] = document_hist[h]

\* C35 (as claimed): on a published node, with or without edges, patchNode,
\* deleteNode and replaceNode all fail with already_published, and the node
\* stays stored, published and unchanged.
C35_AlwaysAlreadyPublished ==
    \A h \in Published :
        /\ \A pub \in PubValues :
            patch_node(CurrentDb, h, pub) = Res(AlreadyPublished, CurrentDb)
        /\ delete_node(CurrentDb, h) = Res(AlreadyPublished, CurrentDb)
        /\ \A new_hid \in Hids, published \in {"true", "false"} :
            put_node(CurrentDb, h, new_hid, published) = Res(AlreadyPublished, CurrentDb)
        /\ StaysAsIs(h)

\* the error of a DELETE of the stored node h: the foreign key of the edges
\* under it is checked before the publication trigger
FrozenError(h) ==
    IF \E e \in document_event : e.parent = h THEN ForeignKeyViolation
    ELSE AlreadyPublished

\* C35 (amended): on a published node patchNode fails with
\* already_published; deleteNode and replaceNode fail, with
\* already_published when the node is the parent of no edge and with the
\* foreign key violation when it is; so the node stays stored, published and
\* unchanged whatever request comes next.
C35_PublishedFrozen ==
    \A h \in Published :
        /\ \A pub \in PubValues :
            patch_node(CurrentDb, h, pub) = Res(AlreadyPublished, CurrentDb)
        /\ delete_node(CurrentDb, h) = Res(FrozenError(h), CurrentDb)
        /\ \A new_hid \in Hids, published \in {"true", "false"} :
            put_node(CurrentDb, h, new_hid, published) = Res(FrozenError(h), CurrentDb)
        /\ StaysAsIs(h)

\* C35 witness: node 1 is published and the parent of node 2, node 2 is
\* published and has no child, and the last request, a patchNode, was
\* answered already_published.
C35_Witness ==
    /\ Published = {1, 2}
    /\ KeyStored(document_event, 1, 2)
    /\ \A e \in document_event : e.parent # 2
    /\ last = Response("patch_node", AlreadyPublished, NULL)


\* ------------------------------------------------------------------------
\* C36
\* ------------------------------------------------------------------------
\* C36: in every reachable state the hist and the non-null parent of every
\* stored edge are ids of stored nodes; deleteNode of a node that is the
\* parent of an edge fails and leaves every node and every edge stored.
C36_ReferentialIntegrity ==
    /\ \A e \in document_event :
        /\ e.hist \in Nodes
        /\ e.parent # NULL => e.parent \in Nodes
    /\ \A x \in Nodes :
        (\E e \in document_event : e.parent = x) =>
            LET r == delete_node(CurrentDb, x)
            IN  r.err = ForeignKeyViolation /\ r.db = CurrentDb

\* C36 witness: an edge with a non-null parent is stored and the last
\* request, a deleteNode, was refused by the foreign key.
C36_Witness ==
    /\ last = Response("delete_node", ForeignKeyViolation, NULL)
    /\ \E e \in document_event : e.parent # NULL


\* ------------------------------------------------------------------------
\* Clients that create documents only: POST /auth and POST /document
\* ------------------------------------------------------------------------
NextDocuments ==
    \/ Authenticate
    \/ PostDocument

SpecDocuments == Init /\ [][NextDocuments]_vars

\* ------------------------------------------------------------------------
\* C37
\* ------------------------------------------------------------------------
\* the edges that point to node n
Incoming(n) == {e \in document_event : e.hist = n}

\* C37: after createDocument calls only, successful or failed, every stored
\* node has exactly one incoming edge, every stored edge has reason "insert"
\* exactly when its parent is null, and the graph is a forest: no node has
\* two parents and none is reached from itself.
C37_DocumentsFormForest ==
    /\ \A n \in Nodes : Cardinality(Incoming(n)) = 1
    /\ \A e \in document_event :
        /\ e.hist \in Nodes
        /\ (e.reason = "insert") = (e.parent = NULL)
        /\ e.reason \in {"insert", "update"}
    /\ \A n \in Nodes : n \notin ReachableFrom(document_event, n)

\* C37 witness: node 1 was created as a root, node 2 under it, and the last
\* createDocument, under the unpublished node 2, failed.
C37_Witness ==
    /\ last = Response("post_document", UnpublishedParent, NULL)
    /\ Nodes = {1, 2}
    /\ Incoming(1) = {EventRow(NULL, 1, "u1", "insert")}
    /\ Incoming(2) = {EventRow(1, 2, "u1", "update")}


\* ------------------------------------------------------------------------
\* C38
\* ------------------------------------------------------------------------
\* C38 (as claimed): for every stored node x, getGraph(x) returns x among
\* its nodes and every stored edge whose parent or hist is x among its
\* edges, also when no edge points to x.
C38_GraphIncludesNode ==
    \A x \in Nodes :
        /\ x \in get_graph_nodes(CurrentDb, x)
        /\ Touching(document_event, x) \subseteq get_graph_edges(CurrentDb, x)


\* ------------------------------------------------------------------------
\* C39
\* ------------------------------------------------------------------------
\* the last second a token of the session started at t0 can be accepted
SessionEnd(t0) == t0 + session_duration + token_duration

\* the seconds up to one past the end of every session that can start
Seconds == 1..(SessionEnd(MaxTime) + 1)

\* C39: a token that descends, through any number of refreshes, from an
\* authentication at time t0 expires no later than t0 + session_duration +
\* token_duration, and a route behind require_authorization answers it 401
\* at every later second; a refresh at t0 + session_duration, the last
\* second of the window, still succeeds when the directory accepts the
\* credentials, and the token it issues is accepted for token_duration.
C39_SessionBound ==
    (origin # NULL /\ Own(held)) =>
        /\ held.exp <= SessionEnd(origin)
        /\ \A t \in Seconds :
            t > SessionEnd(origin) => require_authorization(held, t).err = Unauthorized
        /\ now = origin + session_duration =>
            LET r == get_handler(NoError, held, now)
            IN  /\ r.err = NoError
                /\ r.token.exp = SessionEnd(origin)
                /\ \A t \in now..SessionEnd(origin) :
                    require_authorization(r.token, t).err = NoError
                /\ require_authorization(r.token, SessionEnd(origin) + 1).err = Unauthorized

\* C39 witness: a refresh has just succeeded at the last second of the
\* session window, and the token it issued is accepted now and expires
\* token_duration later.
C39_Witness ==
    /\ origin # NULL /\ Own(held)
    /\ now = origin + session_duration
    /\ jwe_last.op = "get_handler" /\ jwe_last.err = NoError /\ jwe_last.at = now
    /\ held.exp = SessionEnd(origin)
    /\ require_authorization(held, now).err = NoError


\* ------------------------------------------------------------------------
\* C40
\* ------------------------------------------------------------------------
\* C40: a replaceEdge or replaceNode that fails, whatever statement raised
\* (the delete, the re-insert or the commit), leaves every node and every
\* edge as they were: the edge or node it addressed is still stored, with
\* the edges that point to it; one that succeeds leaves the row it inserted.
C40_ReplaceAtomic ==
    /\ \A parent \in Parents, hist \in Hids, uid \in Uids \cup {Absent} :
        LET r == put_edge_event(CurrentDb, parent, hist, uid, ManualReason)
        IN  /\ r.err # NoError => r.db = CurrentDb
            /\ r.err = NoError =>
                   EventRow(parent, hist, uid, ManualReason) \in r.db.E
            /\ uid = Absent => r.err = NotNullViolation
    /\ \A hid \in Hids, new_hid \in Hids, published \in {"true", "false"} :
        LET r == put_node(CurrentDb, hid, new_hid, published)
        IN  /\ r.err # NoError => r.db = CurrentDb
            /\ r.err = NoError => new_hid \in DOMAIN r.db.H
            /\ (new_hid \in Nodes \ {hid}) => r.err # NoError

\* C40 witness: the last request, a replaceEdge whose body lacks the uid,
\* failed on its re-insert; the edge it addressed is stored, and a
\* replaceNode of the unpublished node 2 by the stored node 1 fails on its
\* re-insert with node 2 and the edge to it still stored.
C40_Witness ==
    /\ last = Response("put_edge_event", NotNullViolation, NULL)
    /\ KeyStored(document_event, 1, 2)
    /\ put_edge_event(CurrentDb, 1, 2, Absent, ManualReason)
           = Res(NotNullViolation, CurrentDb)
    /\ document_hist[2].published = "false"
    /\ put_node(CurrentDb, 2, 1, "false") = Res(UniqueViolation, CurrentDb)

====
